---- MODULE Spec2Model ----
(***************************************************************************)
(* A model of the nuclei template execution engine.                        *)
(*                                                                         *)
(*  - Scan engine (package core): Engine.executeTemplateSpray,             *)
(*    Engine.executeHostSpray, Engine.executeModelWithInput,               *)
(*    Engine.ExecuteWithResults, Engine.executeModelWithInputAndResult.    *)
(*    Goroutines are modelled as processes with a position (pc); a         *)
(*    sizedwaitgroup is the number of goroutines that hold one of its      *)
(*    slots, Add() blocking while the group is full.                       *)
(*  - HTTP adapter (package http): the request generator and the four      *)
(*    execution modes of Request.ExecuteWithResults.                       *)
(***************************************************************************)
EXTENDS Integers, Sequences, FiniteSets, TLC

\* ------------------------------------------------------------------ bounds
\* Number of templates handed to the engine (len(templatesList)).
NTemplates == 2
\* Number of targets the input provider yields.
NTargets == 3
\* Number of distinct hosts behind the targets.
NHosts == 2
\* Largest index / threshold a resume file of the model names.
MaxResume == 1
\* options.BulkSize: the size of the input pool and of hostwg.
BulkSize == 2
\* options.TemplateThreads: the size of workPool.Default.
TemplateThreads == 2
\* options.MaxHostError: errors after which a host is tripped.
MaxHostErrors == 1

\* Largest number of paths or raw requests of a modelled HTTP request.
MaxSlots == 2
\* Largest Threads / RaceNumberRequests of a modelled HTTP request.
MaxHTTPWorkers == 2

\* Number of template paths and of goroutines parsing templates.
NPaths == 2
NParsers == 2
NWorkflowPaths == 2
MaxRefs == 2
MaxDepth == 4
MaxLists == 2
MaxListLen == 3
MaxDone == 2
MaxMatchers == 2
MaxExtractors == 2
MaxWords == 2
MaxWordLen == 1
MaxCorpusLen == 2
MaxExpressions == 3
NURLs == 2
MaxInteractions == 2
NDumps == 2
MaxRun == 2
\* Longest template id of a modelled template file.
MaxIdLen == 2

\* Number of CreateIssue calls made on a modelled reporting client.
MaxCalls == 3

\* Number of protocols in the queue of a modelled multi-protocol request.
MaxQueue == 2

Templates == 1..NTemplates
\* Targets are named by their 0-based position in the scan's input sequence.
Targets == 0..(NTargets - 1)
Hosts == 0..(NHosts - 1)
\* contextargs.MetaInput.ID(): the host-error cache key of a target.
HostOf(g) == g % NHosts

\* Spray instances: instance 0 is a call of executeTemplateSpray (or of
\* ExecuteWithResults) on the whole input; instance s > 0 is the call that
\* executeHostSpray makes for the single target s - 1.
Instances == 0..NTargets
\* Mutant: executeHostSpray hands every host goroutine the whole input.
InputOf_WholeInput(s) == [i \in 1..NTargets |-> i - 1]
InputOf(s) == IF s = 0 THEN [i \in 1..NTargets |-> i - 1] ELSE <<s - 1>>

Strategies == {"template-spray", "host-spray", "with-results"}

\* generalTypes.ResumeInfo as read from a resume file.
ZeroResumeInfo == [Completed |-> FALSE, SkipUnder |-> 0, DoAbove |-> 0, InFlight |-> {}]
ResumeChoices ==
    [Completed : BOOLEAN, SkipUnder : 0..MaxResume, DoAbove : {0, MaxResume},
     InFlight : SUBSET (0..MaxResume)]

VARIABLES
    strategy,    \* e.options.ScanStrategy, or "with-results" for ExecuteWithResults
    templatesLen,\* len(templatesList)
    failing,     \* hosts that refuse every connection
    resumeFrom,  \* ResumeCfg.ResumeFrom: template -> ResumeInfo
    current,     \* ResumeCfg.Current: template -> [Completed, InFlight]
    hostErrors,  \* HostErrorsCache: host -> number of errors recorded
    scanPos,     \* executeHostSpray: targets target.Scan has handed out
    inst,        \* spray instance -> [pc, next]: the loop over templatesList
    worker,      \* (instance, template) -> the template goroutine
    task,        \* (instance, template, target) -> the target goroutine
    executed,    \* history: (template, target) -> executer invocations in this run
    run,         \* 1: the scan; 2: the scan resumed after an interruption
    before       \* history: what the interrupted run had done, per template

engineVars == <<strategy, templatesLen, failing, resumeFrom, current, hostErrors,
                scanPos, inst, worker, task, executed, run, before>>

VARIABLES
    request,     \* the http.Request r and the options it runs under
    matches,     \* slots (paths / raws) whose response gives a positive result
    hpc,         \* position of the goroutine that runs ExecuteWithResults
    currentIndex,\* requestGenerator.currentIndex
    generated,   \* the generatedRequest the calling goroutine holds
    hworker,     \* goroutines of the parallel, pipeline and race modes
    tokens,      \* history: calls of RateLimiter.Take()
    attempts,    \* history: requests sent to the host
    untokened,   \* history: requests sent without a rate-limit token of their own
    matched,     \* history: a positive result has been produced
    afterMatch   \* history: a request was generated or sent after a positive result

httpVars == <<request, matches, hpc, currentIndex, generated, hworker, tokens,
              attempts, untokened, matched, afterMatch>>

VARIABLES
    templateCtx, \* r.options.TemplateCtx of a multi-protocol request: the value under a key
    mnext,       \* target -> position of its ExecuteWithResults call in r.Queue
    mseen        \* history: target -> values its execution found in the context

multiVars == <<templateCtx, mnext, mseen>>

VARIABLES
    reportOptions, \* c.options: AllowList, DenyList; and the tracker's own filter
    dedupe,        \* c.dedupe: the keys the storage has indexed
    calls,         \* history: number of CreateIssue calls made
    tracked,       \* history: key -> tracker.CreateIssue calls
    exported       \* history: key -> exporter.Export calls

reportVars == <<reportOptions, dedupe, calls, tracked, exported>>

VARIABLES
    parser,      \* which entry point the callers use: "Parse" or "LoadTemplate"
    parseOptions,\* options.Options: OfflineHTTP, Headless
    files,       \* path -> the template the file at that path holds
    cache,       \* parsedTemplatesCache: path -> template value, NoTemplate if absent
    pproc,       \* goroutine -> its call: [pc, path, tpl, ret]
    nextTpl,     \* the next *Template value to be allocated
    inserts,     \* history: path -> template values inserted in the cache
    returned     \* history: path -> template values returned by successful calls

parseVars == <<parser, parseOptions, files, cache, pproc, nextTpl, inserts, returned>>

\* The variables of the components introduced after the engine and the HTTP
\* adapter.
\* The older templates.Parse compiling a workflow: the template files, the
\* stack of nested Parse calls and the outcome of the outermost call.
VARIABLES wfiles, wstack, wresult
workflowVars == <<wfiles, wstack, wresult>>

\* A request generator by itself: the request and its payloads, the
\* generator's fields, the values it returned and its Done returns.
VARIABLES genRequest, payloads, attack, generator, yielded, dones
genVars == <<genRequest, payloads, attack, generator, yielded, dones>>

coreVars == <<multiVars, reportVars, parseVars, workflowVars, genVars>>

\* One call of a function of the program: its arguments, whether it has
\* returned, and what it returned.
VARIABLES input, called, output
fnVars == <<input, called, output>>

\* The interactsh client: how far the scan is with every out-of-band URL, the
\* interactions the server holds for the next poll, the cache of request
\* events, whether the poller runs, and what happened to the polled
\* interactions of every URL.
VARIABLES oobURL, interactions, requests, polling, oobLog
oobVars == <<oobURL, interactions, requests, polling, oobLog>>

\* The project file: the dumps it holds, the requests still to execute, the
\* state of the executing goroutine and what was sent and stored.
VARIABLES projectFile, pending, pfState, pfLog
projectVars == <<projectFile, pending, pfState, pfLog>>

extVars == <<fnVars, oobVars, projectVars>>

restVars == <<coreVars, extVars>>

vars == <<engineVars, httpVars, restVars>>

NoWorker == [pc |-> "none", pos |-> 0, index |-> 0, skip |-> FALSE, trip |-> FALSE]
NoTask == [st |-> "none", index |-> 0, skip |-> FALSE, trip |-> FALSE]
NoBefore == [t \in Templates |-> [done |-> {}, inflight |-> {}]]

\* A fresh engine: no goroutine started, an empty Current, an empty cache.
StartCurrent == [t \in Templates |-> [Completed |-> FALSE, InFlight |-> {}]]
StartHostErrors == [h \in Hosts |-> 0]
StartInst(strat) ==
    [s \in Instances |->
        IF s = 0 /\ strat # "host-spray"
        THEN [pc |-> "loop", next |-> 1] ELSE [pc |-> "none", next |-> 1]]
StartWorker == [s \in Instances |-> [t \in Templates |-> NoWorker]]
StartTask == [s \in Instances |-> [t \in Templates |-> [g \in Targets |-> NoTask]]]
StartExecuted == [t \in Templates |-> [g \in Targets |-> 0]]

EngineStart(strat) ==
    /\ current = StartCurrent
    /\ hostErrors = StartHostErrors
    /\ scanPos = 0
    /\ inst = StartInst(strat)
    /\ worker = StartWorker
    /\ task = StartTask
    /\ executed = StartExecuted

\* The scan of NTemplates templates under a strategy, from a resume file whose
\* entry for template 1 is arbitrary and which has no entry for the others.
EngineInit ==
    /\ strategy \in Strategies
    /\ templatesLen = NTemplates
    /\ failing \in SUBSET Hosts
    /\ resumeFrom \in [Templates -> ResumeChoices \cup {ZeroResumeInfo}]
    /\ \A t \in Templates : t # 1 => resumeFrom[t] = ZeroResumeInfo
    /\ strategy = "with-results" => resumeFrom[1] = ZeroResumeInfo
    /\ EngineStart(strategy)
    /\ run = 1
    /\ before = NoBefore

\* ------------------------------------------------------- shared resources

\* HostErrorsCache.Check: the host has reached the error budget.
HostErrorsCheck(h) == hostErrors[h] >= MaxHostErrors

\* HostErrorsCache.MarkFailed, as the protocol adapter calls it on an error.
MarkFailed(h) == [hostErrors EXCEPT ![h] = IF @ < MaxHostErrors THEN @ + 1 ELSE @]

\* Template goroutines holding a slot of workPool.Default (shared by every
\* call of executeTemplateSpray).
WorkerRunning(w) == w.pc \in {"scan", "add"}
DefaultPool == {st \in Instances \X Templates : WorkerRunning(worker[st[1]][st[2]])}

\* Target goroutines holding a slot of the input pool that one call of
\* executeModelWithInput created (workPool.InputPool builds a group per call).
InputPool(s, t) == {g \in Targets : task[s][t][g].st \notin {"none", "done"}}

\* Executer.Execute returns an error for a target of a host that refuses
\* every connection.
ExecuteErr(g) == HostOf(g) \in failing

\* Mutant: an error of the executer ends the goroutine before its deferred
\* calls, as a fatal log call would.
AfterExecute_Fatal(err) == IF err THEN "fatal" ELSE "done"
\* What the target goroutine does with the error of the executer: a warning
\* is logged and the goroutine goes on to its deferred calls.
AfterExecute(err) == "done"

\* Host goroutines holding a slot of hostwg.
HostPool == {s \in Instances : s > 0 /\ inst[s].pc = "loop"}

\* ------------------------------------------- Engine.executeModelWithInput

\* Mutant: the skip-under test is missing.
ResumeSkip_NoSkipUnder(rf, index) ==
    IF rf.Completed THEN TRUE
    ELSE IF index \in rf.InFlight THEN FALSE
    ELSE IF index > rf.DoAbove THEN FALSE
    ELSE FALSE
\* Mutant: an in-flight index is skipped instead of repeated.
ResumeSkip_InFlightSkipped(rf, index) ==
    IF rf.Completed THEN TRUE
    ELSE IF index < rf.SkipUnder THEN TRUE
    ELSE IF index \in rf.InFlight THEN TRUE
    ELSE IF index > rf.DoAbove THEN FALSE
    ELSE FALSE
\* The resume decision of the scan callback for the target at `index`.
ResumeSkip(rf, index) ==
    IF rf.Completed THEN TRUE
    ELSE IF index < rf.SkipUnder THEN TRUE
    ELSE IF index \in rf.InFlight THEN FALSE
    ELSE IF index > rf.DoAbove THEN FALSE
    ELSE FALSE

\* Mutant: the host-error cache is not consulted.
SkipHost_Never(h) == FALSE
\* "Skip if the host has had errors": the cache check of the scan callback.
SkipHost(h) == HostErrorsCheck(h)

\* The sizes the work pool is built with: InputConcurrency for the group that
\* InputPool returns, TypeConcurrency for workPool.Default.
InputConcurrency == BulkSize
TypeConcurrency == TemplateThreads

\* Mutant: the target goroutine is started without waiting for a slot.
InputPoolAdd_NoLimit(s, t) == TRUE
\* wg.WaitGroup.Add() of the scan callback returns: the input pool has room.
InputPoolAdd(s, t) == Cardinality(InputPool(s, t)) < InputConcurrency

\* wg.Add() of the loop over templatesList returns: workPool.Default has room.
DefaultPoolAdd == Cardinality(DefaultPool) < TypeConcurrency

\* hostwg.Add() of executeHostSpray returns: hostwg has room.
HostPoolAdd == Cardinality(HostPool) < BulkSize

\* The target the scan callback of (s, t) is at.
TargetAt(s, t) == InputOf(s)[worker[s][t].pos + 1]

\* The scan callback up to the host check: the resume decision, the index put
\* in Current.InFlight, then either the early return (host tripped: the index
\* is neither advanced nor cleaned up) or on to wg.Add().
executeModelWithInput_Scan(s, t) ==
    LET w == worker[s][t] IN
    /\ strategy # "with-results"
    /\ w.pc = "scan"
    /\ w.pos < Len(InputOf(s))
    /\ LET h == HostOf(TargetAt(s, t)) IN
       /\ current' = [current EXCEPT ![t].InFlight = @ \cup {w.index}]
       /\ worker' = [worker EXCEPT ![s][t] =
            IF SkipHost(h)
            THEN [w EXCEPT !.pos = @ + 1]
            ELSE [w EXCEPT !.pc = "add",
                           !.skip = ResumeSkip(resumeFrom[t], w.index),
                           !.trip = HostErrorsCheck(h)]]
    /\ UNCHANGED <<strategy, templatesLen, failing, resumeFrom, hostErrors, scanPos,
                   inst, task, executed, run, before, httpVars, restVars>>

\* wg.Add(), the go statement and index++.
executeModelWithInput_Go(s, t) ==
    LET w == worker[s][t] IN
    /\ strategy # "with-results"
    /\ w.pc = "add"
    /\ InputPoolAdd(s, t)
    /\ task' = [task EXCEPT ![s][t][TargetAt(s, t)] =
                  [st |-> "run", index |-> w.index, skip |-> w.skip, trip |-> w.trip]]
    /\ worker' = [worker EXCEPT ![s][t] =
                  [w EXCEPT !.pc = "scan", !.pos = @ + 1, !.index = @ + 1]]
    /\ UNCHANGED <<strategy, templatesLen, failing, resumeFrom, current, hostErrors,
                   scanPos, inst, executed, run, before, httpVars, restVars>>

\* The target goroutine: nothing when skip; else the executer runs on the
\* target (an error of a failing host is recorded in the host-error cache by
\* the adapter); then cleanupInFlight(index) and wg.Done().
executeModelWithInput_Task(s, t, g) ==
    LET k == task[s][t][g] IN
    /\ strategy # "with-results"
    /\ k.st = "run"
    /\ task' = [task EXCEPT ![s][t][g].st =
                  IF k.skip THEN "done" ELSE AfterExecute(ExecuteErr(g))]
    /\ current' = [current EXCEPT ![t].InFlight =
                     IF task'[s][t][g].st = "done" THEN @ \ {k.index} ELSE @]
    /\ IF k.skip
       THEN UNCHANGED <<executed, hostErrors>>
       ELSE /\ executed' = [executed EXCEPT ![t][g] = @ + 1]
            /\ hostErrors' = IF ExecuteErr(g)
                             THEN MarkFailed(HostOf(g)) ELSE hostErrors
    /\ UNCHANGED <<strategy, templatesLen, failing, resumeFrom, scanPos, inst, worker,
                   run, before, httpVars, restVars>>

\* After target.Scan: wg.WaitGroup.Wait(), Completed = true, and the template
\* goroutine's deferred wg.Done().
executeModelWithInput_Done(s, t) ==
    LET w == worker[s][t] IN
    /\ strategy # "with-results"
    /\ w.pc = "scan"
    /\ w.pos = Len(InputOf(s))
    /\ InputPool(s, t) = {}
    /\ current' = [current EXCEPT ![t].Completed = TRUE]
    /\ worker' = [worker EXCEPT ![s][t].pc = "done"]
    /\ UNCHANGED <<strategy, templatesLen, failing, resumeFrom, hostErrors, scanPos,
                   inst, task, executed, run, before, httpVars, restVars>>

\* ---------------------------------------------- Engine.executeTemplateSpray

\* One turn of the loop over templatesList: wg.Add() and the go statement; the
\* goroutine enters executeModelWithInput, whose resume entries already exist
\* or are created empty.
executeTemplateSpray_Add(s) ==
    /\ strategy # "with-results"
    /\ inst[s].pc = "loop"
    /\ inst[s].next <= templatesLen
    /\ DefaultPoolAdd
    /\ worker' = [worker EXCEPT ![s][inst[s].next] = [NoWorker EXCEPT !.pc = "scan"]]
    /\ inst' = [inst EXCEPT ![s].next = @ + 1]
    /\ UNCHANGED <<strategy, templatesLen, failing, resumeFrom, current, hostErrors,
                   scanPos, task, executed, run, before, httpVars, restVars>>

\* e.workPool.Wait() returns: no template goroutine holds a slot of the pool.
\* Under host-spray the host goroutine then ends (hostwg.Done()).
executeTemplateSpray_Wait(s) ==
    /\ strategy # "with-results"
    /\ inst[s].pc = "loop"
    /\ inst[s].next > templatesLen
    /\ DefaultPool = {}
    /\ inst' = [inst EXCEPT ![s].pc = "done"]
    /\ UNCHANGED <<strategy, templatesLen, failing, resumeFrom, current, hostErrors,
                   scanPos, worker, task, executed, run, before, httpVars, restVars>>

\* ------------------------------------------------- Engine.executeHostSpray

\* The callback of target.Scan: hostwg.Add() and a goroutine that runs
\* executeTemplateSpray on a provider holding the one target.
executeHostSpray_Scan ==
    /\ strategy = "host-spray"
    /\ scanPos < NTargets
    /\ HostPoolAdd
    /\ inst' = [inst EXCEPT ![scanPos + 1] = [pc |-> "loop", next |-> 1]]
    /\ scanPos' = scanPos + 1
    /\ UNCHANGED <<strategy, templatesLen, failing, resumeFrom, current, hostErrors,
                   worker, task, executed, run, before, httpVars, restVars>>

\* -------------------------------------------- Engine.ExecuteWithResults

\* One turn of the loop over templatesList of ExecuteWithResults.
ExecuteWithResults_Add ==
    /\ strategy = "with-results"
    /\ inst[0].pc = "loop"
    /\ inst[0].next <= templatesLen
    /\ DefaultPoolAdd
    /\ worker' = [worker EXCEPT ![0][inst[0].next] = [NoWorker EXCEPT !.pc = "scan"]]
    /\ inst' = [inst EXCEPT ![0].next = @ + 1]
    /\ UNCHANGED <<strategy, templatesLen, failing, resumeFrom, current, hostErrors,
                   scanPos, task, executed, run, before, httpVars, restVars>>

\* e.workPool.Wait() of ExecuteWithResults.
ExecuteWithResults_Wait ==
    /\ strategy = "with-results"
    /\ inst[0].pc = "loop"
    /\ inst[0].next > templatesLen
    /\ DefaultPool = {}
    /\ inst' = [inst EXCEPT ![0].pc = "done"]
    /\ UNCHANGED <<strategy, templatesLen, failing, resumeFrom, current, hostErrors,
                   scanPos, worker, task, executed, run, before, httpVars, restVars>>

\* The scan callback of executeModelWithInputAndResult up to the host check.
executeModelWithInputAndResult_Scan(t) ==
    LET w == worker[0][t] IN
    /\ strategy = "with-results"
    /\ w.pc = "scan"
    /\ w.pos < Len(InputOf(0))
    /\ LET h == HostOf(TargetAt(0, t)) IN
       worker' = [worker EXCEPT ![0][t] =
            IF SkipHost(h)
            THEN [w EXCEPT !.pos = @ + 1]
            ELSE [w EXCEPT !.pc = "add", !.trip = HostErrorsCheck(h)]]
    /\ UNCHANGED <<strategy, templatesLen, failing, resumeFrom, current, hostErrors,
                   scanPos, inst, task, executed, run, before, httpVars, restVars>>

\* wg.Add() and the go statement of executeModelWithInputAndResult.
executeModelWithInputAndResult_Go(t) ==
    LET w == worker[0][t] IN
    /\ strategy = "with-results"
    /\ w.pc = "add"
    /\ InputPoolAdd(0, t)
    /\ task' = [task EXCEPT ![0][t][TargetAt(0, t)] =
                  [st |-> "run", index |-> 0, skip |-> FALSE, trip |-> w.trip]]
    /\ worker' = [worker EXCEPT ![0][t] = [w EXCEPT !.pc = "scan", !.pos = @ + 1]]
    /\ UNCHANGED <<strategy, templatesLen, failing, resumeFrom, current, hostErrors,
                   scanPos, inst, executed, run, before, httpVars, restVars>>

\* The target goroutine of executeModelWithInputAndResult.
executeModelWithInputAndResult_Task(t, g) ==
    /\ strategy = "with-results"
    /\ task[0][t][g].st = "run"
    /\ task' = [task EXCEPT ![0][t][g].st = AfterExecute(ExecuteErr(g))]
    /\ executed' = [executed EXCEPT ![t][g] = @ + 1]
    /\ hostErrors' = IF ExecuteErr(g) THEN MarkFailed(HostOf(g)) ELSE hostErrors
    /\ UNCHANGED <<strategy, templatesLen, failing, resumeFrom, current, scanPos, inst,
                   worker, run, before, httpVars, restVars>>

\* wg.WaitGroup.Wait() of executeModelWithInputAndResult, then wg.Done().
executeModelWithInputAndResult_Done(t) ==
    LET w == worker[0][t] IN
    /\ strategy = "with-results"
    /\ w.pc = "scan"
    /\ w.pos = Len(InputOf(0))
    /\ InputPool(0, t) = {}
    /\ worker' = [worker EXCEPT ![0][t].pc = "done"]
    /\ UNCHANGED <<strategy, templatesLen, failing, resumeFrom, current, hostErrors,
                   scanPos, inst, task, executed, run, before, httpVars, restVars>>

\* ------------------------------------------------- the engine's steps

NextTemplateSpray ==
    \/ \E s \in Instances : executeTemplateSpray_Add(s)
    \/ \E s \in Instances : executeTemplateSpray_Wait(s)
    \/ \E s \in Instances, t \in Templates : executeModelWithInput_Scan(s, t)
    \/ \E s \in Instances, t \in Templates : executeModelWithInput_Go(s, t)
    \/ \E s \in Instances, t \in Templates, g \in Targets :
            executeModelWithInput_Task(s, t, g)
    \/ \E s \in Instances, t \in Templates : executeModelWithInput_Done(s, t)

NextEngine ==
    \/ NextTemplateSpray
    \/ executeHostSpray_Scan
    \/ ExecuteWithResults_Add
    \/ ExecuteWithResults_Wait
    \/ \E t \in Templates : executeModelWithInputAndResult_Scan(t)
    \/ \E t \in Templates : executeModelWithInputAndResult_Go(t)
    \/ \E t \in Templates, g \in Targets : executeModelWithInputAndResult_Task(t, g)
    \/ \E t \in Templates : executeModelWithInputAndResult_Done(t)

\* ------------------------------------------------ interruption and resume

SetMin(S) == CHOOSE x \in S : \A y \in S : x <= y
SetMax(S) == CHOOSE x \in S : \A y \in S : x >= y

\* The resume entry saved for a template when the scan is interrupted: the
\* in-flight set of Current, with the edges of the sliding window as
\* executeModelWithInput reads them ("indexes lower than the minimum in-flight
\* at interruption time", "index above the sliding window").
SavedResumeInfo(c) ==
    [Completed |-> c.Completed,
     InFlight  |-> c.InFlight,
     SkipUnder |-> IF c.InFlight = {} THEN 0 ELSE SetMin(c.InFlight),
     DoAbove   |-> IF c.InFlight = {} THEN 0 ELSE SetMax(c.InFlight)]

\* Targets whose executer call has returned for template t in this run.
CompletedTargets(t) ==
    {g \in Targets : \E s \in Instances :
        task[s][t][g].st = "done" /\ ~task[s][t][g].skip}

\* The scan is interrupted while some target is in flight; the resume file is
\* saved and a new process resumes the scan from it.
Interrupt ==
    /\ run = 1
    /\ inst[0].pc = "loop"
    /\ \E t \in Templates : current[t].InFlight # {}
    /\ resumeFrom' = [t \in Templates |-> SavedResumeInfo(current[t])]
    /\ before' = [t \in Templates |->
                    [done |-> CompletedTargets(t), inflight |-> current[t].InFlight]]
    /\ run' = 2
    /\ current' = StartCurrent
    /\ hostErrors' = StartHostErrors
    /\ scanPos' = 0
    /\ inst' = StartInst(strategy)
    /\ worker' = StartWorker
    /\ task' = StartTask
    /\ executed' = StartExecuted
    /\ UNCHANGED <<strategy, templatesLen, failing, httpVars, restVars>>

\* A template-spray scan of one template over reachable hosts, started
\* without a resume file.
ResumeInit ==
    /\ strategy = "template-spray"
    /\ templatesLen = 1
    /\ failing = {}
    /\ resumeFrom = [t \in Templates |-> ZeroResumeInfo]
    /\ EngineStart(strategy)
    /\ run = 1
    /\ before = NoBefore

NextResume == NextTemplateSpray \/ Interrupt

\* ------------------------------------------------------- the HTTP adapter
\* One call of http.Request.ExecuteWithResults for one (template, target),
\* as the target goroutine of the engine makes it. The target's host is host 0.

\* A slot is a path or a raw request of the template, named by its position;
\* 0 stands for the empty string.
HTTPRequests ==
    [Path : {<<>>} \cup UNION {[1..n -> {1}] : n \in 1..MaxSlots},
     Raw : {<<>>} \cup UNION {[1..n -> {1}] : n \in 1..MaxSlots},
     Unsafe : BOOLEAN, Pipeline : BOOLEAN, Race : BOOLEAN,
     RaceNumberRequests : {0, MaxHTTPWorkers}, Threads : {0, MaxHTTPWorkers},
     StopAtFirstMatch : BOOLEAN]

\* The slot list the generator walks, and the slot at a 0-based index.
Slots(r) == IF Len(r.Path) > 0 THEN r.Path ELSE r.Raw

NoGenerated == [slot |-> 0, original |-> FALSE, token |-> FALSE]
NoHTTPWorker == [pc |-> "none", req |-> NoGenerated]
HTTPWorkers == 1..(IF MaxSlots > MaxHTTPWorkers THEN MaxSlots ELSE MaxHTTPWorkers)

HttpStart ==
    /\ hpc = "dispatch"
    /\ currentIndex = 0
    /\ generated = NoGenerated
    /\ hworker = [w \in HTTPWorkers |-> NoHTTPWorker]
    /\ tokens = 0
    /\ attempts = 0
    /\ untokened = 0
    /\ matched = FALSE
    /\ afterMatch = FALSE

\* A template with path requests or with raw requests (not both), a server
\* that answers some slots with a positive response, and a host-error cache
\* that is empty or already holds the host as tripped.
HttpInit ==
    /\ request \in HTTPRequests
    /\ (Len(request.Path) > 0) # (Len(request.Raw) > 0)
    /\ (request.Unsafe \/ request.Pipeline) => Len(request.Raw) > 0
    /\ matches \in SUBSET (1..Len(Slots(request)))
    /\ failing \in {{}, {0}}
    /\ hostErrors \in [Hosts -> {0, MaxHostErrors}]
    /\ \A h \in Hosts : h # 0 => hostErrors[h] = 0
    /\ HttpStart

\* The engine variables while only the adapter is looked at.
EngineIdle ==
    /\ strategy = "none"
    /\ templatesLen = 0
    /\ resumeFrom = [t \in Templates |-> ZeroResumeInfo]
    /\ current = StartCurrent
    /\ scanPos = 0
    /\ inst = StartInst("host-spray")
    /\ worker = StartWorker
    /\ task = StartTask
    /\ executed = StartExecuted
    /\ run = 1
    /\ before = NoBefore

\* The adapter variables while only the engine is looked at.
HttpIdle ==
    /\ request = [Path |-> <<>>, Raw |-> <<>>, Unsafe |-> FALSE, Pipeline |-> FALSE,
                  Race |-> FALSE, RaceNumberRequests |-> 0, Threads |-> 0,
                  StopAtFirstMatch |-> FALSE]
    /\ matches = {}
    /\ hpc = "idle"
    /\ currentIndex = 0
    /\ generated = NoGenerated
    /\ hworker = [w \in HTTPWorkers |-> NoHTTPWorker]
    /\ tokens = 0
    /\ attempts = 0
    /\ untokened = 0
    /\ matched = FALSE
    /\ afterMatch = FALSE

engineRest == <<strategy, templatesLen, resumeFrom, current, scanPos, inst, worker,
                task, executed, run, before>>

\* The branch ExecuteWithResults takes.
ExecutionMode(r) ==
    IF r.Pipeline THEN "pipeline"
    ELSE IF r.Race /\ r.RaceNumberRequests > 0 THEN "race"
    ELSE IF r.Threads > 0 THEN "parallel"
    ELSE "sequential"

\* Mutant: nextValue returns the slot and leaves currentIndex as it is.
nextValue_NoAdvance(r, index) ==
    IF Len(r.Path) > 0 /\ index < Len(r.Path) /\ r.Path[index + 1] # 0
    THEN [ok |-> TRUE, slot |-> index + 1, index |-> index]
    ELSE IF Len(r.Raw) > 0 /\ index < Len(r.Raw) /\ r.Raw[index + 1] # 0
    THEN [ok |-> TRUE, slot |-> index + 1, index |-> index]
    ELSE [ok |-> FALSE, slot |-> 0, index |-> index]

\* requestGenerator.nextValue without payloads: [ok, slot, index].
nextValue(r, index) ==
    IF Len(r.Path) > 0 /\ index < Len(r.Path) /\ r.Path[index + 1] # 0
    THEN [ok |-> TRUE, slot |-> index + 1, index |-> index + 1]
    ELSE IF Len(r.Raw) > 0 /\ index < Len(r.Raw) /\ r.Raw[index + 1] # 0
    THEN [ok |-> TRUE, slot |-> index + 1, index |-> index + 1]
    ELSE [ok |-> FALSE, slot |-> 0, index |-> index]

\* requestGenerator.Make: the generatedRequest of a slot. Only
\* handleRawWithPaylods with r.request.Unsafe fills the field original; a path
\* is never a raw request.
Make(r, slot) ==
    [slot |-> slot,
     original |-> (Len(r.Path) = 0 /\ r.Unsafe),
     token |-> FALSE]

\* executeRequest reads request.original.Pipeline before it sends anything:
\* with original nil the goroutine panics and the process ends.
Panics(rq) == ~rq.original

\* The engine's check before it starts the target goroutine, and the entry of
\* ExecuteWithResults (newGenerator).
HttpDispatch ==
    /\ hpc = "dispatch"
    /\ hpc' = IF SkipHost(0) THEN "skipped" ELSE "make"
    /\ UNCHANGED <<request, matches, currentIndex, generated, hworker, tokens, attempts,
                   untokened, matched, afterMatch, failing, hostErrors, engineRest, restVars>>

\* What executeRequest does with a request that has its original: the request
\* is sent; a refused connection is an error, else the response goes through
\* the operators and the callback sees a positive result for a matching slot.
\* executeRequest itself only reports the error to Output and Progress; the
\* error is counted against the host here as well, as the cache counts the
\* errors of the engine's tasks, so that the cache trips after MaxHostErrors
\* errors of this call too.
SendRequest(rq) ==
    /\ attempts' = attempts + 1
    /\ untokened' = IF rq.token THEN untokened ELSE untokened + 1
    /\ afterMatch' = (afterMatch \/ matched)
    /\ IF 0 \in failing
       THEN /\ hostErrors' = MarkFailed(0)
            /\ UNCHANGED matched
       ELSE /\ matched' = (matched \/ rq.slot \in matches)
            /\ UNCHANGED hostErrors

\* gotOutput of the sequential loop: the callback saw an OperatorsResult.
GotOutput(rq) == 0 \notin failing /\ rq.slot \in matches

\* --- sequential mode: the loop of ExecuteWithResults

\* generator.Make: io.EOF ends the loop, else the request is held.
Sequential_Make ==
    /\ hpc = "make"
    /\ ExecutionMode(request) = "sequential"
    /\ LET nv == nextValue(request, currentIndex) IN
       IF nv.ok
       THEN /\ generated' = Make(request, nv.slot)
            /\ currentIndex' = nv.index
            /\ hpc' = "take"
            /\ afterMatch' = (afterMatch \/ matched)
       ELSE /\ hpc' = "done"
            /\ UNCHANGED <<generated, currentIndex, afterMatch>>
    /\ UNCHANGED <<request, matches, hworker, tokens, attempts, untokened, matched,
                   failing, hostErrors, engineRest, restVars>>

\* r.options.RateLimiter.Take()
Sequential_Take ==
    /\ hpc = "take"
    /\ ExecutionMode(request) = "sequential"
    /\ tokens' = tokens + 1
    /\ generated' = [generated EXCEPT !.token = TRUE]
    /\ hpc' = "exec"
    /\ UNCHANGED <<request, matches, currentIndex, hworker, attempts, untokened, matched,
                   afterMatch, failing, hostErrors, engineRest, restVars>>

\* Whether the sequential loop breaks after a request.
StopsAtFirstMatch(r, rq) == r.StopAtFirstMatch /\ GotOutput(rq)

\* executeRequest and the rest of the loop body: the break on
\* StopAtFirstMatch && gotOutput, else the next turn.
Sequential_Execute ==
    /\ hpc = "exec"
    /\ ExecutionMode(request) = "sequential"
    /\ IF Panics(generated)
       THEN /\ hpc' = "panic"
            /\ UNCHANGED <<attempts, untokened, matched, afterMatch, hostErrors>>
       ELSE /\ SendRequest(generated)
            /\ hpc' = IF StopsAtFirstMatch(request, generated) THEN "done" ELSE "make"
    /\ UNCHANGED <<request, matches, currentIndex, generated, hworker, tokens, failing,
                   engineRest, restVars>>

\* --- goroutines of the parallel, pipeline and race modes

RunningHTTPWorkers == {w \in HTTPWorkers : hworker[w].pc \in {"take", "exec"}}
FreeHTTPWorker == CHOOSE w \in HTTPWorkers : hworker[w].pc = "none"

\* The goroutine's executeRequest, then swg.Done().
Worker_Execute(w) ==
    /\ hpc \in {"make", "spawn", "wait"}
    /\ hworker[w].pc = "exec"
    /\ IF Panics(hworker[w].req)
       THEN /\ hpc' = "panic"
            /\ UNCHANGED <<hworker, attempts, untokened, matched, afterMatch, hostErrors>>
       ELSE /\ SendRequest(hworker[w].req)
            /\ hworker' = [hworker EXCEPT ![w].pc = "done"]
            /\ UNCHANGED hpc
    /\ UNCHANGED <<request, matches, currentIndex, generated, tokens, failing, engineRest, restVars>>

\* swg.Wait() returns and the collected error is returned.
Workers_Wait ==
    /\ hpc = "wait"
    /\ RunningHTTPWorkers = {}
    /\ hpc' = "done"
    /\ UNCHANGED <<request, matches, currentIndex, generated, hworker, tokens, attempts,
                   untokened, matched, afterMatch, failing, hostErrors, engineRest, restVars>>

\* --- parallel mode: executeParallelHTTP

\* One turn of the loop: generator.Make, swg.Add() (blocking while Threads
\* goroutines run) and the go statement; io.EOF leads to swg.Wait().
Parallel_Make ==
    /\ hpc = "make"
    /\ ExecutionMode(request) = "parallel"
    /\ LET nv == nextValue(request, currentIndex) IN
       IF nv.ok
       THEN /\ Cardinality(RunningHTTPWorkers) < request.Threads
            /\ hworker' = [hworker EXCEPT ![FreeHTTPWorker] =
                             [pc |-> "take", req |-> Make(request, nv.slot)]]
            /\ currentIndex' = nv.index
            /\ afterMatch' = (afterMatch \/ matched)
            /\ UNCHANGED hpc
       ELSE /\ hpc' = "wait"
            /\ UNCHANGED <<hworker, currentIndex, afterMatch>>
    /\ UNCHANGED <<request, matches, generated, tokens, attempts, untokened, matched,
                   failing, hostErrors, engineRest, restVars>>

\* r.options.RateLimiter.Take() in the goroutine.
Parallel_Take(w) ==
    /\ hpc \in {"make", "wait"}
    /\ hworker[w].pc = "take"
    /\ tokens' = tokens + 1
    /\ hworker' = [hworker EXCEPT ![w].pc = "exec", ![w].req.token = TRUE]
    /\ UNCHANGED <<request, matches, hpc, currentIndex, generated, attempts, untokened,
                   matched, afterMatch, failing, hostErrors, engineRest, restVars>>

\* --- pipeline mode: executeTurboHTTP

\* One turn of the loop: generator.Make, swg.Add() (the group holds at least
\* defaultMaxWorkers goroutines, more than the template has requests) and the
\* go statement.
Turbo_Make ==
    /\ hpc = "make"
    /\ ExecutionMode(request) = "pipeline"
    /\ LET nv == nextValue(request, currentIndex) IN
       IF nv.ok
       THEN /\ hworker' = [hworker EXCEPT ![FreeHTTPWorker] =
                             [pc |-> "exec", req |-> Make(request, nv.slot)]]
            /\ currentIndex' = nv.index
            /\ afterMatch' = (afterMatch \/ matched)
            /\ UNCHANGED hpc
       ELSE /\ hpc' = "wait"
            /\ UNCHANGED <<hworker, currentIndex, afterMatch>>
    /\ UNCHANGED <<request, matches, generated, tokens, attempts, untokened, matched,
                   failing, hostErrors, engineRest, restVars>>

\* --- race mode: executeRaceRequest

\* generator.Make, once, before the loop; its error is returned.
Race_Make ==
    /\ hpc = "make"
    /\ ExecutionMode(request) = "race"
    /\ LET nv == nextValue(request, currentIndex) IN
       IF nv.ok
       THEN /\ generated' = Make(request, nv.slot)
            /\ currentIndex' = nv.index
            /\ hpc' = "spawn"
       ELSE /\ hpc' = "done"
            /\ UNCHANGED <<generated, currentIndex>>
    /\ UNCHANGED <<request, matches, hworker, tokens, attempts, untokened, matched,
                   afterMatch, failing, hostErrors, engineRest, restVars>>

\* One turn of the loop over RaceNumberRequests: swg.Add() and a goroutine
\* that is handed the one generated request; after the last turn, swg.Wait().
Race_Spawn ==
    /\ hpc = "spawn"
    /\ LET started == Cardinality({w \in HTTPWorkers : hworker[w].pc # "none"}) IN
       IF started < request.RaceNumberRequests
       THEN /\ hworker' = [hworker EXCEPT ![FreeHTTPWorker] =
                             [pc |-> "exec", req |-> generated]]
            /\ UNCHANGED hpc
       ELSE /\ hpc' = "wait"
            /\ UNCHANGED hworker
    /\ UNCHANGED <<request, matches, currentIndex, generated, tokens, attempts, untokened,
                   matched, afterMatch, failing, hostErrors, engineRest, restVars>>

NextHTTP ==
    \/ HttpDispatch
    \/ Sequential_Make
    \/ Sequential_Take
    \/ Sequential_Execute
    \/ \E w \in HTTPWorkers : Worker_Execute(w)
    \/ Workers_Wait
    \/ Parallel_Make
    \/ \E w \in HTTPWorkers : Parallel_Take(w)
    \/ Turbo_Make
    \/ Race_Make
    \/ Race_Spawn

\* ------------------------------------------- the multi-protocol request
\* One compiled multi.Request executed by the engine on every target, each
\* execution in its own target goroutine.

\* No value under the key; otherwise a value is named by the target whose
\* response it was extracted from.
NoValue == 0 - 1

\* Compile: r.options.TemplateCtx = contextargs.New(), once per template.
MultiCompiled ==
    /\ templateCtx = NoValue
    /\ mnext = [g \in Targets |-> 0]
    /\ mseen = [g \in Targets |-> {}]

MultiIdle == MultiCompiled

\* A scan of the targets with the compiled request, some hosts refusing every
\* connection.
MultiInit ==
    /\ MultiCompiled
    /\ EngineIdle
    /\ failing \in SUBSET Hosts
    /\ hostErrors = StartHostErrors

\* Target goroutines that are inside ExecuteWithResults.
MultiRunning == {g \in Targets : mnext[g] \in 1..(MaxQueue + 1)}

\* The engine starts the target goroutine, which calls ExecuteWithResults.
Multi_Start(g) ==
    /\ mnext[g] = 0
    /\ Cardinality(MultiRunning) < InputConcurrency
    /\ mnext' = [mnext EXCEPT ![g] = 1]
    /\ UNCHANGED <<templateCtx, mseen, engineVars, httpVars, reportVars, parseVars, workflowVars, genVars, extVars>>

\* The values of the template context a protocol of the queue is handed on
\* target g ("passed to next protocol in queue").
ContextValues == IF templateCtx = NoValue THEN {} ELSE {templateCtx}

\* multiProtoCallback: a dynamic value of the operators result is stored in
\* the template context.
TemplateCtxSet(g, extracted) == IF extracted THEN g ELSE templateCtx

\* One turn of the loop over r.Queue for target g: the protocol executes with
\* the template context; an error ends the call; else multiProtoCallback
\* stores the internal extractor's value, if it extracted one.
Multi_Execute(g) ==
    /\ mnext[g] \in 1..MaxQueue
    /\ mseen' = [mseen EXCEPT ![g] = @ \cup ContextValues]
    /\ IF ExecuteErr(g)
       THEN /\ mnext' = [mnext EXCEPT ![g] = MaxQueue + 2]
            /\ UNCHANGED templateCtx
       ELSE /\ mnext' = [mnext EXCEPT ![g] = @ + 1]
            /\ \E extracted \in BOOLEAN : templateCtx' = TemplateCtxSet(g, extracted)
    /\ UNCHANGED <<engineVars, httpVars, reportVars, parseVars, workflowVars, genVars, extVars>>

\* After the loop: callback(finalProtoEvent) and return nil.
Multi_Return(g) ==
    /\ mnext[g] = MaxQueue + 1
    /\ mnext' = [mnext EXCEPT ![g] = MaxQueue + 2]
    /\ UNCHANGED <<templateCtx, mseen, engineVars, httpVars, reportVars, parseVars, workflowVars, genVars, extVars>>

NextMulti ==
    \/ \E g \in Targets : Multi_Start(g)
    \/ \E g \in Targets : Multi_Execute(g)
    \/ \E g \in Targets : Multi_Return(g)

\* ------------------------------------------------- the reporting client

\* output.ResultEvent, as far as reporting reads it: the four fields of the
\* deduplication key and a timestamp that is not part of it.
ResultEvents ==
    [TemplateID : Templates, Matched : Hosts, MatcherName : {"", "m"},
     ExtractedResults : {<<>>, <<"x">>}, Timestamp : 1..MaxCalls]

\* dedupe.Storage.Index hashes the fields of the key.
EventKey(e) == <<e.TemplateID, e.Matched, e.MatcherName, e.ExtractedResults>>
EventKeys == {EventKey(e) : e \in ResultEvents}

\* filters.Filter.GetMatch decides on the severity and the tags of the
\* template of the event; a filter is given by the templates it matches.
GetMatch(filter, e) == e.TemplateID \in filter.templates

NilFilter == [nil |-> TRUE, templates |-> {}]
Filters == {NilFilter} \cup [nil : {FALSE}, templates : {{1}, Templates}]

ReportStart ==
    /\ dedupe = {}
    /\ calls = 0
    /\ tracked = [k \in EventKeys |-> 0]
    /\ exported = [k \in EventKeys |-> 0]

ReportIdle ==
    /\ reportOptions = [AllowList |-> NilFilter, DenyList |-> NilFilter,
                        TrackerFilter |-> {}]
    /\ ReportStart

\* reporting.New with one tracker and one exporter registered.
ReportInit ==
    /\ reportOptions \in [AllowList : Filters, DenyList : Filters,
                          TrackerFilter : {{}, {1}}]
    /\ ReportStart

\* The global allow/deny list lets the event through.
PassesLists(e) ==
    /\ ~(~reportOptions.AllowList.nil /\ ~GetMatch(reportOptions.AllowList, e))
    /\ ~(~reportOptions.DenyList.nil /\ GetMatch(reportOptions.DenyList, e))

\* c.dedupe.Index(event): unique when the key was not indexed before.
IndexUnique(e) == EventKey(e) \notin dedupe

\* Mutant: the event is forwarded whatever Index answers.
Forward_Always(unique) == TRUE
\* "if unique": the event goes to the trackers and exporters.
Forward(unique) == unique

\* tracker.ShouldFilter(event): the tracker's own allow/deny list.
ShouldFilter(e) == e.TemplateID \in reportOptions.TrackerFilter

\* ReportingClient.CreateIssue(event).
CreateIssue(e) ==
    /\ calls < MaxCalls
    /\ calls' = calls + 1
    /\ IF ~PassesLists(e)
       THEN UNCHANGED <<dedupe, tracked, exported>>
       ELSE /\ dedupe' = dedupe \cup {EventKey(e)}
            /\ IF Forward(IndexUnique(e))
               THEN /\ tracked' = IF ShouldFilter(e) THEN tracked
                                  ELSE [tracked EXCEPT ![EventKey(e)] = @ + 1]
                    /\ exported' = [exported EXCEPT ![EventKey(e)] = @ + 1]
               ELSE UNCHANGED <<tracked, exported>>
    /\ UNCHANGED <<reportOptions, engineVars, httpVars, multiVars, parseVars, workflowVars, genVars, extVars>>

NextReport == \E e \in ResultEvents : CreateIssue(e)

\* ------------------------------------------------- parsing of templates

Paths == 1..NPaths
Parsers == 1..NParsers

\* Characters of a template id: "a" stands for a letter or digit, "-" for
\* one of the separators - and _, "!" for any other character.
IdChars == {"a", "-", "!"}
TemplateIDs == UNION {[1..n -> IdChars] : n \in 0..MaxIdLen}

\* templateIDRegexp, ^([a-zA-Z0-9]+[-_])*[a-zA-Z0-9]+$: groups of letters and
\* digits joined by single separators.
templateIDRegexpMatch(id) ==
    /\ Len(id) > 0
    /\ \A i \in 1..Len(id) : id[i] \in {"a", "-"}
    /\ id[1] = "a" /\ id[Len(id)] = "a"
    /\ \A i \in 1..(Len(id) - 1) : ~(id[i] = "-" /\ id[i + 1] = "-")

\* utils.IsBlank: empty or only white space.
IsBlank(str) == str \in {"", " "}

\* What a template file decodes to, as far as Parse and the validation read
\* it. Requests are the protocols with at least one request block (file and
\* network blocks are treated as dns blocks are); HTTPBaseURL tells whether
\* the paths of the first http block are all {{BaseURL}}.
TemplateContents ==
    [ID : TemplateIDs, Name : {"", " ", "n"}, Authors : {<<>>, <<"a">>},
     Requests : SUBSET {"dns", "http", "headless"}, HTTPBaseURL : BOOLEAN,
     Workflows : 0..1]

ValidContent ==
    [ID |-> <<"a">>, Name |-> "n", Authors |-> <<"a">>, Requests |-> {"http"},
     HTTPBaseURL |-> FALSE, Workflows |-> 0]

\* "Compile the requests found": whether template.Executer is set.
HasExecuter(c, o) ==
    \/ "dns" \in c.Requests /\ ~o.OfflineHTTP
    \/ "http" \in c.Requests /\ (o.OfflineHTTP => c.HTTPBaseURL)
    \/ "headless" \in c.Requests /\ ~o.OfflineHTTP /\ o.Headless

\* templates.Parse after the decoding: the checks that make it return an
\* error (compileErr: template.Executer.Compile() fails).
ParseError(c, o, compileErr) ==
    \/ IsBlank(c.Name)
    \/ c.Authors = <<>>
    \/ c.Requests = {} /\ c.Workflows = 0
    \/ HasExecuter(c, o) /\ compileErr
    \/ ~HasExecuter(c, o) /\ c.Workflows = 0

\* validateTemplateMandatoryFields returns nil.
validateTemplateMandatoryFields(c) ==
    /\ ~IsBlank(c.Name)
    /\ c.Authors # <<>>
    /\ c.ID # <<>> /\ templateIDRegexpMatch(c.ID)

\* No template value.
NoTemplate == 0

NoCall == [pc |-> "off", path |-> 1, tpl |-> NoTemplate, ret |-> "none", loaded |-> "none"]

ParseStart ==
    /\ cache = [f \in Paths |-> NoTemplate]
    /\ nextTpl = 1
    /\ inserts = [f \in Paths |-> {}]
    /\ returned = [f \in Paths |-> {}]

ParseIdle ==
    /\ parser = "Parse"
    /\ parseOptions = [OfflineHTTP |-> FALSE, Headless |-> FALSE]
    /\ files = [f \in Paths |-> ValidContent]
    /\ pproc = [p \in Parsers |-> NoCall]
    /\ ParseStart

\* One goroutine parses templates; the file at path 1 holds any template.
ParseInit ==
    /\ parser \in {"Parse", "LoadTemplate"}
    /\ parseOptions \in [OfflineHTTP : BOOLEAN, Headless : BOOLEAN]
    /\ files \in [Paths -> TemplateContents]
    /\ \A f \in Paths : f # 1 => files[f] = ValidContent
    /\ files[1].HTTPBaseURL => "http" \in files[1].Requests
    /\ pproc = [p \in Parsers |-> IF p = 1 THEN [NoCall EXCEPT !.pc = "idle"] ELSE NoCall]
    /\ ParseStart

\* Every goroutine parses a template, concurrently with the others; a file
\* holds a template that parses or one without a name.
CacheInit ==
    /\ parser \in {"Parse", "LoadTemplate"}
    /\ parseOptions = [OfflineHTTP |-> FALSE, Headless |-> FALSE]
    /\ files \in [Paths -> {ValidContent, [ValidContent EXCEPT !.Name = ""]}]
    /\ pproc = [p \in Parsers |-> [NoCall EXCEPT !.pc = "idle"]]
    /\ ParseStart

\* The call returns to a caller of Parse, or goes on in LoadTemplate.
AfterParse == IF parser = "LoadTemplate" THEN "validate" ELSE "done"

\* The entry of Parse / ParseTemplate on path f: the cache lookup; a cached
\* value is returned at once.
Parse_Call(p, f) ==
    /\ pproc[p].pc = "idle"
    /\ IF cache[f] # NoTemplate
       THEN /\ pproc' = [pproc EXCEPT ![p] = [@ EXCEPT !.pc = AfterParse, !.path = f,
                                                      !.tpl = cache[f], !.ret = "ok"]]
            /\ returned' = [returned EXCEPT ![f] = @ \cup {cache[f]}]
       ELSE /\ pproc' = [pproc EXCEPT ![p] = [@ EXCEPT !.pc = "parse", !.path = f]]
            /\ UNCHANGED returned
    /\ UNCHANGED <<parser, parseOptions, files, cache, nextTpl, inserts,
                   engineVars, httpVars, multiVars, reportVars, workflowVars, genVars, extVars>>

\* After a miss: template := &Template{}, the file is read and decoded.
\* Parse then runs its checks and compiles the requests; ParseTemplate checks
\* nothing.
Parse_Decode(p) ==
    /\ pproc[p].pc = "parse"
    /\ \E compileErr \in BOOLEAN :
        IF parser = "Parse" /\ ParseError(files[pproc[p].path], parseOptions, compileErr)
        THEN /\ pproc' = [pproc EXCEPT ![p] = [@ EXCEPT !.pc = "done", !.ret = "err"]]
             /\ UNCHANGED nextTpl
        ELSE /\ pproc' = [pproc EXCEPT ![p] = [@ EXCEPT !.pc = "store", !.tpl = nextTpl]]
             /\ nextTpl' = nextTpl + 1
    /\ UNCHANGED <<parser, parseOptions, files, cache, inserts, returned,
                   engineVars, httpVars, multiVars, reportVars, workflowVars, genVars, extVars>>

\* Two goroutines are writing the unsynchronised map of templates.Parse at
\* once.
ConcurrentMapWrites(p) ==
    parser = "Parse" /\ \E q \in Parsers : q # p /\ pproc[q].pc = "store"

\* parsedTemplatesCache[filePath] = template (Store for ParseTemplate) and
\* the return of the template. Concurrent writes of the map of templates.Parse
\* are a data race: the write goes through or the runtime ends the process.
Parse_Store(p) ==
    LET f == pproc[p].path IN
    /\ pproc[p].pc = "store"
    /\ \/ /\ cache' = [cache EXCEPT ![f] = pproc[p].tpl]
          /\ inserts' = [inserts EXCEPT ![f] = @ \cup {pproc[p].tpl}]
          /\ returned' = [returned EXCEPT ![f] = @ \cup {pproc[p].tpl}]
          /\ pproc' = [pproc EXCEPT ![p] = [@ EXCEPT !.pc = AfterParse, !.ret = "ok"]]
       \/ /\ ConcurrentMapWrites(p)
          /\ pproc' = [q \in Parsers |-> [pproc[q] EXCEPT !.pc = "fatal"]]
          /\ UNCHANGED <<cache, inserts, returned>>
    /\ UNCHANGED <<parser, parseOptions, files, nextTpl,
                   engineVars, httpVars, multiVars, reportVars, workflowVars, genVars, extVars>>

\* LoadTemplate after ParseTemplate: a workflow is not loaded, a template
\* failing validateTemplateMandatoryFields is not loaded, else the tag filter
\* decides.
LoadTemplate_Validate(p) ==
    LET c == files[pproc[p].path] IN
    /\ pproc[p].pc = "validate"
    /\ \E match \in BOOLEAN :
        pproc' = [pproc EXCEPT ![p] = [@ EXCEPT !.pc = "done", !.loaded =
            IF c.Workflows > 0 THEN "no"
            ELSE IF ~validateTemplateMandatoryFields(c) THEN "no"
            ELSE IF match THEN "yes" ELSE "no"]]
    /\ UNCHANGED <<parser, parseOptions, files, cache, nextTpl, inserts, returned,
                   engineVars, httpVars, multiVars, reportVars, workflowVars, genVars, extVars>>

NextParse ==
    \/ \E p \in Parsers, f \in Paths : Parse_Call(p, f)
    \/ \E p \in Parsers : Parse_Decode(p)
    \/ \E p \in Parsers : Parse_Store(p)
    \/ \E p \in Parsers : LoadTemplate_Validate(p)

\* ------------------------------------------------ compiling of workflows

WorkflowPaths == 1..NWorkflowPaths

\* A template file as the older Parse reads it: whether it has request
\* blocks, and the templates its workflow block names, in the order in which
\* parseWorkflow visits them (a workflow template, its subtemplates, the
\* subtemplates of its matchers); GetTemplatePath resolves a name to one path.
WorkflowFiles ==
    [Requests : BOOLEAN,
     Workflows : UNION {[1..n -> WorkflowPaths] : n \in 0..MaxRefs}]

\* A call of Parse: its file and the next workflow template to compile
\* (0: the call has just been entered).
WorkflowFrames == [path : WorkflowPaths, next : 0..(MaxRefs + 1)]

WorkflowIdle ==
    /\ wfiles = [f \in WorkflowPaths |-> [Requests |-> TRUE, Workflows |-> <<>>]]
    /\ wstack = <<>>
    /\ wresult = "none"

WorkflowInit ==
    /\ wfiles \in [WorkflowPaths -> WorkflowFiles]
    /\ wstack = <<>>
    /\ wresult = "none"

Top == wstack[Len(wstack)]

Pop(stack) == SubSeq(stack, 1, Len(stack) - 1)

\* Parse(filePath) is called from outside.
Workflow_Parse(f) ==
    /\ wstack = <<>>
    /\ wresult = "none"
    /\ wstack' = <<[path |-> f, next |-> 0]>>
    /\ UNCHANGED <<wfiles, wresult, engineVars, httpVars, multiVars, reportVars, parseVars, genVars, extVars>>

\* An error return: parseWorkflowTemplate, parseWorkflow, compileWorkflow and
\* Parse of every enclosing call return the wrapped error at once.
ReturnError ==
    /\ wstack' = <<>>
    /\ wresult' = "err"

\* Parse after the decoding: a template with no requests and no workflow is
\* an error.
Workflow_Check ==
    /\ wstack # <<>>
    /\ Top.next = 0
    /\ IF ~wfiles[Top.path].Requests /\ wfiles[Top.path].Workflows = <<>>
       THEN ReturnError
       ELSE /\ wstack' = [wstack EXCEPT ![Len(wstack)].next = 1]
            /\ UNCHANGED wresult
    /\ UNCHANGED <<wfiles, engineVars, httpVars, multiVars, reportVars, parseVars, genVars, extVars>>

\* parseWorkflowTemplate: Parse(path, opts) of the next template the
\* workflow names. The depth of the model's stack is bounded.
Workflow_Descend ==
    /\ wstack # <<>>
    /\ Top.next \in 1..Len(wfiles[Top.path].Workflows)
    /\ Len(wstack) < MaxDepth
    /\ wstack' = Append(wstack, [path |-> wfiles[Top.path].Workflows[Top.next], next |-> 0])
    /\ UNCHANGED <<wfiles, wresult, engineVars, httpVars, multiVars, reportVars, parseVars, genVars, extVars>>

\* The end of Parse: the requests are compiled into the executer and the
\* template is returned. A caller (parseWorkflowTemplate) fails on a template
\* without executer and else goes on to its next workflow template.
Workflow_Return ==
    /\ wstack # <<>>
    /\ Top.next = Len(wfiles[Top.path].Workflows) + 1
    /\ \E compileErr \in BOOLEAN :
        IF wfiles[Top.path].Requests /\ compileErr
        THEN ReturnError
        ELSE IF Len(wstack) = 1
        THEN /\ wstack' = <<>>
             /\ wresult' = "ok"
        ELSE IF ~wfiles[Top.path].Requests
        THEN ReturnError
        ELSE /\ wstack' = [Pop(wstack) EXCEPT ![Len(wstack) - 1].next = @ + 1]
             /\ UNCHANGED wresult
    /\ UNCHANGED <<wfiles, engineVars, httpVars, multiVars, reportVars, parseVars, genVars, extVars>>

NextWorkflow ==
    \/ \E f \in WorkflowPaths : Workflow_Parse(f)
    \/ Workflow_Check
    \/ Workflow_Descend
    \/ Workflow_Return

\* ------------------------------------------------- the payload generator

\* A payload map, as the lengths of its lists in the order of the names; a
\* value of a list is named by its position. validate rejects an empty list.
PayloadMaps == UNION {[1..n -> 1..MaxListLen] : n \in 1..MaxLists}

NoPayloads == <<>>

Attacks == {"sniper", "pitchfork", "clusterbomb"}

\* pitchfork needs lists of one length; the generator is not created else.
ValidPayloads(pm, a) ==
    a = "pitchfork" => \A i, j \in 1..Len(pm) : pm[i] = pm[j]

RECURSIVE Product(_)
Product(pm) == IF pm = <<>> THEN 1 ELSE pm[1] * Product(Tail(pm))

RECURSIVE Sum(_)
Sum(pm) == IF pm = <<>> THEN 0 ELSE pm[1] + Sum(Tail(pm))

\* total(): the product of the lengths, the common length, the sum.
Total(pm, a) ==
    IF a = "clusterbomb" THEN Product(pm)
    ELSE IF a = "pitchfork" THEN pm[1]
    ELSE Sum(pm)

\* The iterator has no binding left.
Exhausted == <<>>

\* reset(): the position of the first binding. A binding of clusterbomb and
\* pitchfork gives every name a position of its list; a binding of sniper
\* gives one name a position and leaves the others out (0).
Reset(pm, a) ==
    IF a = "sniper" THEN [i \in 1..Len(pm) |-> IF i = 1 THEN 1 ELSE 0]
    ELSE [i \in 1..Len(pm) |-> 1]

\* Mutant: the index vector does not carry into the position before.
RECURSIVE AdvanceVector_NoCarry(_, _, _)
AdvanceVector_NoCarry(pm, pos, i) ==
    IF i = 0 \/ pos[i] >= pm[i] THEN Exhausted
    ELSE [pos EXCEPT ![i] = @ + 1]

\* clusterbomb: the index vector advances at position i, carrying into the
\* position before when the list at i is used up.
RECURSIVE AdvanceVector(_, _, _)
AdvanceVector(pm, pos, i) ==
    IF i = 0 THEN Exhausted
    ELSE IF pos[i] < pm[i] THEN [pos EXCEPT ![i] = @ + 1]
    ELSE AdvanceVector(pm, [pos EXCEPT ![i] = 1], i - 1)

\* The position after a binding.
Advance(pm, a, pos) ==
    IF a = "clusterbomb" THEN AdvanceVector(pm, pos, Len(pm))
    ELSE IF a = "pitchfork"
    THEN IF pos[1] < pm[1] THEN [i \in 1..Len(pm) |-> pos[i] + 1] ELSE Exhausted
    ELSE LET l == CHOOSE i \in 1..Len(pm) : pos[i] > 0 IN
         IF pos[l] < pm[l] THEN [pos EXCEPT ![l] = @ + 1]
         ELSE IF l < Len(pm) THEN [i \in 1..Len(pm) |-> IF i = l + 1 THEN 1 ELSE 0]
         ELSE Exhausted

\* Iterator.Value(): the binding at the position and whether there is one;
\* the iterator moves to the position after it.
Value(pm, a, pos) ==
    [ok |-> pos # Exhausted,
     payload |-> pos,
     next |-> IF pos = Exhausted THEN Exhausted ELSE Advance(pm, a, pos)]

\* ------------------------------------------------- the request generator

\* The slot lists of a request: a path list or a raw list, a slot being 1 or,
\* for the empty string, 0.
SlotLists == UNION {[1..n -> {0, 1}] : n \in 1..MaxSlots}

GenRequests ==
    {[Path |-> l, Raw |-> <<>>] : l \in SlotLists} \cup
    {[Path |-> <<>>, Raw |-> l] : l \in SlotLists}

\* newGenerator: the iterator exists when the request has payloads.
newGenerator(pm, a) ==
    [currentIndex |-> 0,
     payloadIterator |-> IF pm = NoPayloads THEN Exhausted ELSE Reset(pm, a)]

Done(index, it) ==
    [ok |-> FALSE, slot |-> 0, payload |-> NoPayloads, index |-> index, iterator |-> it]

\* requestGenerator.nextValue of a request with payloads: a path is returned
\* without payload; a raw request is returned with the iterator's next
\* binding, and when the iterator has none the generator moves to the next
\* raw request and resets the iterator.
nextValuePayloads(r, index, pm, a, it) ==
    IF Len(r.Path) > 0 /\ index < Len(r.Path) /\ r.Path[index + 1] # 0
    THEN [ok |-> TRUE, slot |-> index + 1, payload |-> NoPayloads,
          index |-> index + 1, iterator |-> it]
    ELSE IF Len(r.Raw) > 0 /\ index < Len(r.Raw)
    THEN LET v == Value(pm, a, it) IN
         IF v.ok
         THEN [ok |-> TRUE, slot |-> index + 1, payload |-> v.payload,
               index |-> index, iterator |-> v.next]
         ELSE IF Len(r.Raw) = index + 1 THEN Done(index + 1, Reset(pm, a))
         ELSE IF r.Raw[index + 2] # 0
         THEN LET w == Value(pm, a, Reset(pm, a)) IN
              [ok |-> w.ok, slot |-> index + 2, payload |-> w.payload,
               index |-> index + 1, iterator |-> w.next]
         ELSE Done(index + 1, Reset(pm, a))
    ELSE Done(index, it)

GeneratorStart ==
    /\ generator = newGenerator(payloads, attack)
    /\ yielded = <<>>
    /\ dones = 0

GeneratorIdle ==
    /\ genRequest = [Path |-> <<>>, Raw |-> <<>>]
    /\ payloads = NoPayloads
    /\ attack = "sniper"
    /\ GeneratorStart

\* A request with or without payloads and its new generator.
GeneratorInit ==
    /\ genRequest \in GenRequests
    /\ payloads \in {NoPayloads} \cup PayloadMaps
    /\ attack \in Attacks
    /\ payloads = NoPayloads => attack = "sniper"
    /\ ValidPayloads(payloads, attack)
    /\ GeneratorStart

\* A payload generator by itself.
PayloadInit ==
    /\ genRequest = [Path |-> <<>>, Raw |-> <<>>]
    /\ payloads \in PayloadMaps
    /\ attack \in Attacks
    /\ ValidPayloads(payloads, attack)
    /\ GeneratorStart

\* One call of nextValue (by Make); the Done returns of the model are bounded.
Generator_Next ==
    /\ dones < MaxDone
    /\ LET nv == IF payloads = NoPayloads
                 THEN nextValue(genRequest, generator.currentIndex)
                      @@ [payload |-> NoPayloads, iterator |-> Exhausted]
                 ELSE nextValuePayloads(genRequest, generator.currentIndex,
                                        payloads, attack, generator.payloadIterator) IN
       /\ generator' = [currentIndex |-> nv.index, payloadIterator |-> nv.iterator]
       /\ IF nv.ok
          THEN /\ yielded' = Append(yielded, [slot |-> nv.slot, payload |-> nv.payload])
               /\ UNCHANGED dones
          ELSE /\ dones' = dones + 1
               /\ UNCHANGED yielded
    /\ UNCHANGED <<genRequest, payloads, attack,
                   engineVars, httpVars, multiVars, reportVars, parseVars, workflowVars, extVars>>

\* One call of Value() on the payload iterator.
Iterator_Value ==
    /\ dones < MaxDone
    /\ LET v == Value(payloads, attack, generator.payloadIterator) IN
       /\ generator' = [generator EXCEPT !.payloadIterator = v.next]
       /\ IF v.ok
          THEN /\ yielded' = Append(yielded, [slot |-> 0, payload |-> v.payload])
               /\ UNCHANGED dones
          ELSE /\ dones' = dones + 1
               /\ UNCHANGED yielded
    /\ UNCHANGED <<genRequest, payloads, attack,
                   engineVars, httpVars, multiVars, reportVars, parseVars, workflowVars, extVars>>

\* reset() of the payload iterator; the iteration starts again.
Iterator_Reset ==
    /\ yielded # <<>>
    /\ generator' = [generator EXCEPT !.payloadIterator = Reset(payloads, attack)]
    /\ yielded' = <<>>
    /\ dones' = 0
    /\ UNCHANGED <<genRequest, payloads, attack,
                   engineVars, httpVars, multiVars, reportVars, parseVars, workflowVars, extVars>>

NextGenerator == Generator_Next

NextPayload == Iterator_Value \/ Iterator_Reset

\* ------------------------------------------------ calls of one function

FnIdle ==
    /\ input = 0
    /\ called = FALSE
    /\ output = 0

\* The frame of a call.
FnFrame == UNCHANGED <<input, engineVars, httpVars, coreVars, oobVars, projectVars>>

\* ------------------------------------------- HTTPExecutor.ExecuteHTTP

Conditions == {"and", "or"}

\* What the operators of a request found in one response: for every matcher
\* whether it matched, for every extractor the number of values it yielded.
Responses ==
    [condition : Conditions,
     matched : UNION {[1..n -> BOOLEAN] : n \in 0..MaxMatchers},
     extracted : UNION {[1..n -> 0..1] : n \in 0..MaxExtractors}]

\* The loop over the matchers from matcher i on: whether the response is
\* left (continue mainLoop) and the outputs written so far. An unmatched
\* matcher leaves the response under AND only; a matched one writes an output
\* at once under OR when the request has no extractors.
RECURSIVE MatcherLoop(_, _, _)
MatcherLoop(rs, i, writes) ==
    IF i > Len(rs.matched) THEN [left |-> FALSE, writes |-> writes]
    ELSE IF ~rs.matched[i]
    THEN IF rs.condition = "and" THEN [left |-> TRUE, writes |-> writes]
         ELSE MatcherLoop(rs, i + 1, writes)
    ELSE IF rs.condition = "or" /\ Len(rs.extracted) = 0
    THEN MatcherLoop(rs, i + 1, writes + 1)
    ELSE MatcherLoop(rs, i + 1, writes)

\* ExecuteHTTP for one response: the number of outputs it writes. After the
\* matchers the final output is written when the request has extractors or
\* the condition is AND.
ExecuteHTTP(rs) ==
    LET m == MatcherLoop(rs, 1, 0) IN
    IF m.left THEN m.writes
    ELSE IF Len(rs.extracted) > 0 \/ rs.condition = "and" THEN m.writes + 1
    ELSE m.writes

ExecuteHTTPInit ==
    /\ input \in Responses
    /\ called = FALSE
    /\ output = 0

ExecuteHTTP_Response ==
    /\ ~called
    /\ called' = TRUE
    /\ output' = ExecuteHTTP(input)
    /\ FnFrame

\* --------------------------------------------------- Matcher.MatchWords

\* Strings are sequences of letters; "A" is the upper case of "a".
Letters == {"a", "A", "b"}

Strings(min, max) == UNION {[1..n -> Letters] : n \in min..max}

\* strings.ToLower
ToLower(str) == [i \in DOMAIN str |-> IF str[i] = "A" THEN "a" ELSE str[i]]

\* strings.Contains
Contains(str, substr) ==
    \E k \in 0..(Len(str) - Len(substr)) : SubSeq(str, k + 1, k + Len(substr)) = substr

\* A word matcher and the corpus it is run on. The words are literal: they
\* hold no expression, and expressions.Evaluate returns them as they are.
WordCalls ==
    [condition : Conditions, CaseInsensitive : BOOLEAN,
     Words : UNION {[1..n -> Strings(1, MaxWordLen)] : n \in 0..MaxWords},
     corpus : Strings(0, MaxCorpusLen)]

\* The compilation of a matcher: the words of a case-insensitive matcher are
\* lowercased.
CompileMatcher(m) ==
    IF m.CaseInsensitive
    THEN [m EXCEPT !.Words = [i \in DOMAIN m.Words |-> ToLower(m.Words[i])]]
    ELSE m

NoMatch == [ok |-> FALSE, words |-> <<>>]

\* Mutant: the corpus is compared as it is.
MatchCorpus_AsIs(m, corpus) == corpus

\* MatchWords: the corpus the words are looked up in.
MatchCorpus(m, corpus) == IF m.CaseInsensitive THEN ToLower(corpus) ELSE corpus

\* Mutant: under AND the last word alone decides.
RECURSIVE WordLoop_LastDecides(_, _, _, _)
WordLoop_LastDecides(m, corpus, i, matchedWords) ==
    IF i > Len(m.Words) THEN NoMatch
    ELSE IF ~Contains(corpus, m.Words[i])
    THEN WordLoop_LastDecides(m, corpus, i + 1, matchedWords)
    ELSE IF m.condition = "or" THEN [ok |-> TRUE, words |-> <<m.Words[i]>>]
    ELSE IF Len(m.Words) = i THEN [ok |-> TRUE, words |-> Append(matchedWords, m.Words[i])]
    ELSE WordLoop_LastDecides(m, corpus, i + 1, Append(matchedWords, m.Words[i]))

\* MatchWords: the loop over the words from word i on. A word not in the
\* corpus ends the loop under AND; a word in the corpus ends it under OR; the
\* last word, reached under AND, returns true.
RECURSIVE WordLoop(_, _, _, _)
WordLoop(m, corpus, i, matchedWords) ==
    IF i > Len(m.Words) THEN NoMatch
    ELSE IF ~Contains(corpus, m.Words[i])
    THEN IF m.condition = "and" THEN NoMatch
         ELSE WordLoop(m, corpus, i + 1, matchedWords)
    ELSE IF m.condition = "or" THEN [ok |-> TRUE, words |-> <<m.Words[i]>>]
    ELSE IF Len(m.Words) = i THEN [ok |-> TRUE, words |-> Append(matchedWords, m.Words[i])]
    ELSE WordLoop(m, corpus, i + 1, Append(matchedWords, m.Words[i]))

MatchWords(m, corpus) == WordLoop(m, MatchCorpus(m, corpus), 1, <<>>)

MatchWordsInit ==
    /\ input \in WordCalls
    /\ called = FALSE
    /\ output = NoMatch

\* A matcher is compiled and run on a corpus.
MatchWords_Call ==
    /\ ~called
    /\ called' = TRUE
    /\ output' = MatchWords(CompileMatcher(input), input.corpus)
    /\ FnFrame

\* ----------------------------------------------------- Matcher.MatchDSL

\* What expression.Evaluate(data) gives for a compiled expression: true,
\* false, a value that is not a boolean, or an error.
Evaluations == {"true", "false", "other", "error"}

DSLCalls ==
    [condition : Conditions,
     dslCompiled : UNION {[1..n -> Evaluations] : n \in 0..MaxExpressions}]

\* MatchDSL: the loop over the expressions from expression i on. An error
\* goes on to the next expression; a result that is not true ends the loop
\* under AND; true ends it under OR and, at the last expression, under AND.
RECURSIVE MatchDSL(_, _)
MatchDSL(m, i) ==
    IF i > Len(m.dslCompiled) THEN FALSE
    ELSE IF m.dslCompiled[i] = "error" THEN MatchDSL(m, i + 1)
    ELSE IF m.dslCompiled[i] # "true"
    THEN IF m.condition = "and" THEN FALSE ELSE MatchDSL(m, i + 1)
    ELSE IF m.condition = "or" THEN TRUE
    ELSE IF Len(m.dslCompiled) = i THEN TRUE
    ELSE MatchDSL(m, i + 1)

MatchDSLInit ==
    /\ input \in DSLCalls
    /\ called = FALSE
    /\ output = FALSE

MatchDSL_Call ==
    /\ ~called
    /\ called' = TRUE
    /\ output' = MatchDSL(input, 1)
    /\ FnFrame

\* ------------------------------------------------- the interactsh client

URLs == 1..NURLs

OobIdle ==
    /\ oobURL = [u \in URLs |-> "none"]
    /\ interactions = [u \in URLs |-> 0]
    /\ requests = {}
    /\ polling = FALSE
    /\ oobLog = [u \in URLs |-> [polled |-> 0, emitted |-> 0, evicted |-> FALSE]]

\* interactsh.New: the cache is empty and the poller runs.
OobInit ==
    /\ oobURL = [u \in URLs |-> "none"]
    /\ interactions = [u \in URLs |-> 0]
    /\ requests = {}
    /\ polling = TRUE
    /\ oobLog = [u \in URLs |-> [polled |-> 0, emitted |-> 0, evicted |-> FALSE]]

OobFrame == UNCHANGED <<engineVars, httpVars, coreVars, fnVars, projectVars>>

\* Client.URL(): a new URL for a request.
Client_URL(u) ==
    /\ oobURL[u] = "none"
    /\ oobURL' = [oobURL EXCEPT ![u] = "handed"]
    /\ UNCHANGED <<interactions, requests, polling, oobLog>>
    /\ OobFrame

\* The request that carries the URL is sent to the target.
Client_Send(u) ==
    /\ oobURL[u] = "handed"
    /\ oobURL' = [oobURL EXCEPT ![u] = "sent"]
    /\ UNCHANGED <<interactions, requests, polling, oobLog>>
    /\ OobFrame

\* The target interacts with the URL of a request it has received; the
\* server keeps the interaction for the next poll.
Interact(u) ==
    /\ oobURL[u] \in {"sent", "registered"}
    /\ interactions[u] + oobLog[u].polled < MaxInteractions
    /\ interactions' = [interactions EXCEPT ![u] = @ + 1]
    /\ UNCHANGED <<oobURL, requests, polling, oobLog>>
    /\ OobFrame

\* Client.RequestEvent, called with the event of the response: the entry of
\* the URL is set in the cache.
RequestEvent(u) ==
    /\ oobURL[u] = "sent"
    /\ oobURL' = [oobURL EXCEPT ![u] = "registered"]
    /\ requests' = requests \cup {u}
    /\ UNCHANGED <<interactions, polling, oobLog>>
    /\ OobFrame

\* The cache discards the entry: its eviction time has passed or the cache
\* is full.
Evict(u) ==
    /\ u \in requests
    /\ requests' = requests \ {u}
    /\ oobLog' = [oobLog EXCEPT ![u].evicted = TRUE]
    /\ UNCHANGED <<oobURL, interactions, polling>>
    /\ OobFrame

\* Mutant: the polling callback leaves the entry in the cache.
Poll_NoDelete(u) ==
    /\ polling
    /\ interactions[u] > 0
    /\ interactions' = [interactions EXCEPT ![u] = @ - 1]
    /\ IF u \in requests
       THEN /\ UNCHANGED requests
            /\ oobLog' = [oobLog EXCEPT ![u].polled = @ + 1, ![u].emitted = @ + 1]
       ELSE /\ UNCHANGED requests
            /\ oobLog' = [oobLog EXCEPT ![u].polled =
                              IF oobLog[u].evicted THEN @ ELSE @ + 1]
    /\ UNCHANGED <<oobURL, polling>>
    /\ OobFrame

\* The polling callback for an interaction of URL u: without an entry in the
\* cache it returns; with one it deletes the entry and writes the results of
\* the event with the interaction.
Poll(u) ==
    /\ polling
    /\ interactions[u] > 0
    /\ interactions' = [interactions EXCEPT ![u] = @ - 1]
    /\ IF u \in requests
       THEN /\ requests' = requests \ {u}
            /\ oobLog' = [oobLog EXCEPT ![u].polled = @ + 1, ![u].emitted = @ + 1]
       ELSE /\ UNCHANGED requests
            /\ oobLog' = [oobLog EXCEPT ![u].polled =
                              IF oobLog[u].evicted THEN @ ELSE @ + 1]
    /\ UNCHANGED <<oobURL, polling>>
    /\ OobFrame

\* Client.Close: the poller is stopped.
Client_Close ==
    /\ polling
    /\ polling' = FALSE
    /\ UNCHANGED <<oobURL, interactions, requests, oobLog>>
    /\ OobFrame

NextOob ==
    \/ \E u \in URLs : Client_URL(u)
    \/ \E u \in URLs : Client_Send(u)
    \/ \E u \in URLs : Interact(u)
    \/ \E u \in URLs : RequestEvent(u)
    \/ \E u \in URLs : Evict(u)
    \/ \E u \in URLs : Poll(u)
    \/ Client_Close

\* ----------------------------------------------------- the project file

ProjectIdle ==
    /\ projectFile = {}
    /\ pending = <<>>
    /\ pfState = "off"
    /\ pfLog = <<>>

\* A request is told from another by its dump.
Dumps == 1..NDumps

\* The generated request of a path or of a raw request of a template:
\* Make fills the field original for an unsafe raw request only.
ProjectRequests ==
    {[dump |-> d, raw |-> raw, Unsafe |-> unsafe, Pipeline |-> pipeline,
      original |-> Make([Path |-> IF raw THEN <<>> ELSE <<1>>, Unsafe |-> unsafe], 1).original] :
        d \in Dumps, raw \in BOOLEAN, unsafe \in BOOLEAN, pipeline \in BOOLEAN}

\* A project file, empty or filled by earlier runs, and the requests of a
\* sequential run.
ProjectInit ==
    /\ projectFile \in SUBSET Dumps
    /\ pending \in UNION {[1..n -> ProjectRequests] : n \in 1..MaxRun}
    /\ pfState = "run"
    /\ pfLog = <<>>

ProjectFrame == UNCHANGED <<engineVars, httpVars, coreVars, fnVars, oobVars>>

\* Whether executeRequest looks the request up in the project file: only in
\* the branch of requests that are neither pipelined nor unsafe raw requests.
LooksUp(g) == ~g.Pipeline /\ ~(g.Unsafe /\ g.raw)

\* executeRequest of the next request. request.original.Pipeline is read
\* first: the goroutine panics on a nil original. The response comes from
\* the project file when the request is looked up and found (Get returns no
\* error), else from the network (which may fail); a response that did not
\* come from the project file is stored.
executeRequest_Project ==
    /\ pfState = "run"
    /\ pending # <<>>
    /\ LET g == Head(pending)
           found == g.dump \in projectFile IN
       IF Panics(g)
       THEN /\ pfState' = "panic"
            /\ UNCHANGED <<projectFile, pending, pfLog>>
       ELSE \E response \in BOOLEAN :
            LET fromcache == LooksUp(g) /\ found
                sent == ~fromcache
                stored == sent /\ response IN
            /\ fromcache => response
            /\ projectFile' = IF stored THEN projectFile \cup {g.dump} ELSE projectFile
            /\ pfLog' = Append(pfLog, [dump |-> g.dump, found |-> found, sent |-> sent,
                                       response |-> response, stored |-> stored])
            /\ pending' = Tail(pending)
            /\ UNCHANGED pfState
    /\ ProjectFrame

\* ------------------------------------------- baseURLWithTemplatePrefs

\* A parsed target URL: its Host is the hostname, with ":" and the port when
\* the port is not "".
ParsedURLs ==
    [Scheme : {"http", "https"}, Host : [hostname : {"h", "g"}, port : {"", "80", "8080"}],
     Path : {"", "/p"}]

\* The call: the package of the function, whether the template data holds
\* {{BaseURL}}:port or {{BaseURL}}/path, and the target URL.
BaseURLCalls == [package : {"requests", "http"}, hasPort : BOOLEAN, hasPath : BOOLEAN, parsedURL : ParsedURLs]

\* net.SplitHostPort: a host without port is an error ("missing port in
\* address") and gives empty strings.
SplitHostPort(host) ==
    IF host.port = "" THEN [host |-> "", port |-> "", err |-> TRUE]
    ELSE [host |-> host.hostname, port |-> host.port, err |-> FALSE]

\* requests.baseURLWithTemplatePrefs: the error of SplitHostPort is dropped
\* and the Host is replaced in any case; the path is dropped for a template
\* path.
requests_baseURLWithTemplatePrefs(hasPort, hasPath, parsedURL) ==
    LET u1 == IF hasPort
              THEN [parsedURL EXCEPT !.Host = [hostname |-> SplitHostPort(parsedURL.Host).host, port |-> ""]]
              ELSE parsedURL IN
    IF hasPath THEN [u1 EXCEPT !.Path = ""] ELSE u1

\* http.baseURLWithTemplatePrefs: the Host is replaced when SplitHostPort
\* returns no error.
http_baseURLWithTemplatePrefs(hasPort, parsedURL) ==
    IF hasPort /\ ~SplitHostPort(parsedURL.Host).err
    THEN [parsedURL EXCEPT !.Host = [hostname |-> SplitHostPort(parsedURL.Host).host, port |-> ""]]
    ELSE parsedURL

BaseURLInit ==
    /\ input \in BaseURLCalls
    /\ called = FALSE
    /\ output = input.parsedURL

baseURLWithTemplatePrefs_Call ==
    /\ ~called
    /\ called' = TRUE
    /\ output' = IF input.package = "requests"
                 THEN requests_baseURLWithTemplatePrefs(input.hasPort, input.hasPath, input.parsedURL)
                 ELSE http_baseURLWithTemplatePrefs(input.hasPort, input.parsedURL)
    /\ FnFrame

\* ------------------------------------------------- signer and code templates

Algorithms == {"ecdsa", "rsa"}

\* The key pairs: the compiled-in one and the two of the code test cases.
KeyPairs == {"pd", "ecdsa-key", "rsa-key"}

NoSigner == [Algorithm |-> "none", key |-> "none"]

\* NUCLEI_SIGNATURE_PUBLIC_KEY and NUCLEI_SIGNATURE_ALGORITHM.
Environments == [PublicKey : KeyPairs \cup {"none"}, Algorithm : Algorithms]

\* A template: whether it has a code request, and its signature line (the
\* algorithm it names and the key pair that made it), or none.
Signatures == [algorithm : Algorithms, key : KeyPairs] \cup {[algorithm |-> "none", key |-> "none"]}
SignedTemplates == [code : BOOLEAN, signature : Signatures]

SignerCalls == [env : Environments, template : SignedTemplates]

\* NewVerifier: no verifier without a public key.
NewVerifier(options) ==
    IF options.PublicKey = "none" THEN NoSigner
    ELSE [Algorithm |-> options.Algorithm, key |-> options.PublicKey]

\* init: the default verifier of the compiled-in RSA key.
DefaultVerifiersInit == <<NewVerifier([PublicKey |-> "pd", Algorithm |-> "rsa"])>>

\* AddToDefault: a nil signer is an error and is not added.
AddToDefault(verifiers, s) ==
    IF s = NoSigner THEN verifiers ELSE Append(verifiers, s)

\* Verify: the signature names the verifier's algorithm and was made by the
\* key pair of the verifier's public key.
Verify_KeyOnly(s, template) ==
    template.signature.key = s.key

Verify(s, template) ==
    /\ template.signature.algorithm = s.Algorithm
    /\ template.signature.key = s.key

\* The verifier of the environment is registered at startup; a code template
\* that no verifier of the trust set verifies is skipped and counted, and a
\* run left without template ends with an error.
RunNucleiTemplateAndGetResults(env, template) ==
    LET verifiers == AddToDefault(DefaultVerifiersInit, NewVerifier(env))
        verified == \E i \in 1..Len(verifiers) : Verify(verifiers[i], template)
        loaded == ~template.code \/ verified IN
    [executed |-> loaded, results |-> IF loaded THEN 1 ELSE 0,
     skipped |-> IF loaded THEN 0 ELSE 1, err |-> ~loaded,
     trust |-> verifiers]

SignerInit ==
    /\ input \in SignerCalls
    /\ called = FALSE
    /\ output = [executed |-> FALSE, results |-> 0, skipped |-> 0, err |-> FALSE,
                 trust |-> DefaultVerifiersInit]

Code_Execute ==
    /\ ~called
    /\ called' = TRUE
    /\ output' = RunNucleiTemplateAndGetResults(input.env, input.template)
    /\ FnFrame

\* ------------------------------------------------------------ DNS request

MaxLabels == 2

\* The name of a compiled request: labels, some of them a {{variable}} that
\* nothing has replaced.
CompiledNames == UNION {[1..n -> {"label", "{{var}}"}] : n \in 1..MaxLabels}

\* One execution: whether Make fails, the compiled request, what the DNS
\* client answers, and the debug option.
DNSCalls ==
    [makeErr : BOOLEAN, compiledRequest : CompiledNames, doErr : BOOLEAN,
     response : BOOLEAN, Debug : BOOLEAN]

\* expressions.ContainsUnresolvedVariables: an error when a {{variable}} is
\* left in the string.
ContainsUnresolvedVariables(requestString) ==
    \E i \in 1..Len(requestString) : requestString[i] = "{{var}}"

DNSStart ==
    [sent |-> FALSE, events |-> 0, err |-> "nil", warnings |-> 0, dumped |-> 0,
     failedRequests |-> 0, requests |-> 0, outputRequests |-> 0]

\* The part of ExecuteWithResults after the check of the variables.
dnsClient_Do(c, o) ==
    LET failed == IF c.doErr THEN 1 ELSE 0
        d == IF c.Debug THEN 1 ELSE 0 IN
    IF ~c.response
    THEN [o EXCEPT !.sent = TRUE, !.dumped = d, !.failedRequests = failed,
                   !.outputRequests = failed,
                   !.err = IF c.doErr THEN "could not send dns request" ELSE "nil"]
    ELSE [o EXCEPT !.sent = TRUE, !.dumped = d, !.failedRequests = failed,
                   !.outputRequests = failed + 1, !.requests = 1, !.events = 1]

ExecuteWithResults_NoAbort(c) ==
    IF c.makeErr
    THEN [DNSStart EXCEPT !.outputRequests = 1, !.failedRequests = 1,
                          !.err = "could not build request"]
    ELSE IF ContainsUnresolvedVariables(c.compiledRequest)
    THEN dnsClient_Do(c, [DNSStart EXCEPT !.warnings = 1])
    ELSE dnsClient_Do(c, DNSStart)

ExecuteWithResults(c) ==
    IF c.makeErr
    THEN [DNSStart EXCEPT !.outputRequests = 1, !.failedRequests = 1,
                          !.err = "could not build request"]
    ELSE IF ContainsUnresolvedVariables(c.compiledRequest)
    THEN [DNSStart EXCEPT !.warnings = 1]
    ELSE dnsClient_Do(c, DNSStart)

DNSInit ==
    /\ input \in DNSCalls
    /\ called = FALSE
    /\ output = DNSStart

DNS_ExecuteWithResults ==
    /\ ~called
    /\ called' = TRUE
    /\ output' = ExecuteWithResults(input)
    /\ FnFrame

\* ------------------------------------------------------- runner input

MaxLines == 2

\* Lines of standard input and of the target list file, as sequences of
\* characters: an empty line, two targets, and a target after a blank.
InputLines == {<<>>, <<"a">>, <<" ", "a">>, <<"b">>}

LineLists == UNION {[1..n -> InputLines] : n \in 0..MaxLines}

\* The options of one start of the runner, with what standard input and the
\* target list file hold, for each of the two versions of New.
RunnerOptions ==
    [version : {"hostMap", "tempFile"}, Target : {<<>>, <<"a">>, <<"b">>},
     Stdin : BOOLEAN, stdin : LineLists, Targets : BOOLEAN, file : LineLists]

\* strings.TrimSpace
RECURSIVE TrimSpace(_)
TrimSpace(str) ==
    IF str = <<>> THEN str
    ELSE IF Head(str) = " " THEN TrimSpace(Tail(str))
    ELSE IF str[Len(str)] = " " THEN TrimSpace(SubSeq(str, 1, Len(str) - 1))
    ELSE str

Stored(r) == {r.input[i] : i \in 1..Len(r.input)}

RunnerStart == [input |-> <<>>, inputCount |-> 0, dupeCount |-> 0]

\* The scanner loop: each line, trimmed in the hostMap version, is skipped
\* when empty, counted as a duplicate when stored, and stored and counted
\* otherwise.
RECURSIVE Scan(_, _, _, _)
Scan(lines, i, trim, r) ==
    IF i > Len(lines) THEN r
    ELSE LET url == IF trim THEN TrimSpace(lines[i]) ELSE lines[i] IN
         IF url = <<>> THEN Scan(lines, i + 1, trim, r)
         ELSE IF url \in Stored(r)
         THEN Scan(lines, i + 1, trim, [r EXCEPT !.dupeCount = @ + 1])
         ELSE Scan(lines, i + 1, trim,
                   [r EXCEPT !.inputCount = @ + 1, !.input = Append(@, url)])

\* New of runner.go: the single target, then standard input, then the target
\* list file, all into the hostMap.
New_hostMap(options) ==
    LET r1 == IF options.Target # <<>>
              THEN [RunnerStart EXCEPT !.inputCount = 1, !.input = <<options.Target>>]
              ELSE RunnerStart
        r2 == IF options.Stdin THEN Scan(options.stdin, 1, TRUE, r1) ELSE r1 IN
    IF options.Targets THEN Scan(options.file, 1, TRUE, r2) ELSE r2

\* New of the version with a temporary file: standard input is copied to the
\* temporary file, the single target replaces it, and the target list file,
\* when given, is the one input that is read.
New_tempFile(options) ==
    LET tempFile == IF options.Target # <<>> THEN <<options.Target>>
                    ELSE IF options.Stdin THEN options.stdin ELSE <<>>
        input_ == IF options.Targets THEN options.file ELSE tempFile IN
    Scan(input_, 1, FALSE, RunnerStart)

RunnerInit ==
    /\ input \in RunnerOptions
    /\ called = FALSE
    /\ output = RunnerStart

Runner_New ==
    /\ ~called
    /\ called' = TRUE
    /\ output' = IF input.version = "hostMap" THEN New_hostMap(input) ELSE New_tempFile(input)
    /\ FnFrame

\* ----------------------------------- one call of multi.ExecuteWithResults

MaxEvents == 2

\* A protocol of the queue: how many events it hands to the callback it is
\* given, and whether it returns an error.
QueuedProtocols == [events : 0..MaxEvents, err : BOOLEAN]

Queues == UNION {[1..n -> QueuedProtocols] : n \in 0..MaxQueue}

\* An event is named by the protocol that delivered it and its rank there.
NoEvent == [protocol |-> 0, n |-> 0]

MultiCallStart == [next |-> 1, log |-> <<>>, finalProtoEvent |-> NoEvent, ret |-> "running"]

\* multiProtoCallback, for the events of protocol i: the last one stays in
\* finalProtoEvent.
multiProtoCallback(finalProtoEvent, i, events) ==
    IF events > 0 THEN [protocol |-> i, n |-> events] ELSE finalProtoEvent

\* One turn of the loop over r.Queue that goes on after an error.
QueueTurn_IgnoreErr(queue, o) ==
    [o EXCEPT !.log = Append(@, [op |-> "execute", protocol |-> o.next, event |-> NoEvent]),
              !.finalProtoEvent = multiProtoCallback(@, o.next, queue[o.next].events),
              !.next = @ + 1]

\* One turn of the loop over r.Queue: the protocol executes with
\* multiProtoCallback; its error is returned at once.
QueueTurn(queue, o) ==
    [o EXCEPT !.log = Append(@, [op |-> "execute", protocol |-> o.next, event |-> NoEvent]),
              !.finalProtoEvent = multiProtoCallback(@, o.next, queue[o.next].events),
              !.next = IF queue[o.next].err THEN @ ELSE @ + 1,
              !.ret = IF queue[o.next].err THEN "err" ELSE @]

MultiCallInit ==
    /\ input \in Queues
    /\ called = FALSE
    /\ output = MultiCallStart

MultiCall_Queue ==
    /\ ~called
    /\ output.next <= Len(input)
    /\ output' = QueueTurn(input, output)
    /\ called' = (output'.ret = "err")
    /\ FnFrame

\* After the loop: callback(finalProtoEvent); return nil.
MultiCall_Callback ==
    /\ ~called
    /\ output.next > Len(input)
    /\ output' = [output EXCEPT
                    !.log = Append(@, [op |-> "callback", protocol |-> 0, event |-> output.finalProtoEvent]),
                    !.ret = "nil"]
    /\ called' = TRUE
    /\ FnFrame

NextMultiCall == MultiCall_Queue \/ MultiCall_Callback

\* ------------------------- dynamic values of the sequential HTTP execution

\* The names of dynamic values; a map holds a value under a name, or "" when
\* the name is not a key of the map.
ValueNames == {"token", "session"}
DynamicMaps(values) == [ValueNames -> values \cup {""}]

\* What one request of the pair meets: an error of executeRequest, or an
\* event whose OperatorsResult is nil or holds the extracted dynamic values.
NoResult == [nil |-> TRUE, DynamicValues |-> [k \in ValueNames |-> ""]]
Outcomes ==
    [err : {TRUE}, OperatorsResult : {NoResult}]
    \cup [err : {FALSE},
          OperatorsResult : {NoResult} \cup [nil : {FALSE}, DynamicValues : DynamicMaps({"e1", "e2"})]]

\* One call: the dynamic values of the workflow, the template's options, and
\* the outcome of each request the generator has.
SequentialCalls ==
    [dynamicValues : DynamicMaps({"w"}), Unsafe : BOOLEAN, StopAtFirstMatch : BOOLEAN,
     outcomes : UNION {[1..n -> Outcomes] : n \in 1..MaxSlots}]

\* Mutant: a key of both maps keeps the value of the first map.
MergeMaps_FirstWins(m1, m2) ==
    [k \in ValueNames |-> IF m1[k] # "" THEN m1[k] ELSE m2[k]]

\* generators.MergeMaps: a new map with the entries of m1, then those of m2.
MergeMaps(m1, m2) ==
    [k \in ValueNames |-> IF m2[k] # "" THEN m2[k] ELSE m1[k]]

\* caller is the map the caller passed in, dynamicValues the local variable
\* of ExecuteWithResults, made the maps generator.Make was called with.
SequentialStart(c) ==
    [pc |-> "make", i |-> 1, caller |-> c.dynamicValues, dynamicValues |-> c.dynamicValues,
     made |-> <<>>, ret |-> "running"]

\* The callback ExecuteWithResults hands to executeRequest.
SequentialCallback(o, event) ==
    IF event.OperatorsResult.nil THEN o
    ELSE [o EXCEPT !.dynamicValues = MergeMaps(@, event.OperatorsResult.DynamicValues)]

SequentialInit ==
    /\ input \in SequentialCalls
    /\ called = FALSE
    /\ output = SequentialStart(input)

\* generator.Make(reqURL, dynamicValues); io.EOF ends the loop.
SequentialCall_Make ==
    /\ ~called
    /\ output.pc = "make"
    /\ IF output.i > Len(input.outcomes)
       THEN /\ output' = [output EXCEPT !.pc = "done", !.ret = "returned"]
            /\ called' = TRUE
       ELSE /\ output' = [output EXCEPT !.pc = "exec", !.made = Append(@, output.dynamicValues)]
            /\ UNCHANGED called
    /\ FnFrame

\* executeRequest with the callback, and the rest of the loop body. A request
\* that is not an unsafe raw request has no original: executeRequest panics.
SequentialCall_Execute ==
    /\ ~called
    /\ output.pc = "exec"
    /\ LET event == input.outcomes[output.i] IN
       IF ~input.Unsafe
       THEN /\ output' = [output EXCEPT !.pc = "panic", !.ret = "panic"]
            /\ called' = TRUE
       ELSE IF event.err
       THEN /\ output' = [output EXCEPT !.pc = "make", !.i = @ + 1]
            /\ UNCHANGED called
       ELSE IF input.StopAtFirstMatch /\ ~event.OperatorsResult.nil
       THEN /\ output' = [SequentialCallback(output, event) EXCEPT !.pc = "done", !.ret = "returned"]
            /\ called' = TRUE
       ELSE /\ output' = [SequentialCallback(output, event) EXCEPT !.pc = "make", !.i = @ + 1]
            /\ UNCHANGED called
    /\ FnFrame

NextSequentialCall == SequentialCall_Make \/ SequentialCall_Execute

\* ------------------------------- the boolean of Engine.ExecuteWithResults

\* One scan: the type of each template and, for each template and target,
\* what the execution gives: for a workflow whether it matched, for another
\* template whether its event carries a result for the callback.
ResultScans ==
    [types : [Templates -> {"workflow", "http"}],
     positive : [Templates \X Targets -> BOOLEAN]]

\* atomic.Bool.CompareAndSwap(false, new)
CompareAndSwapFalse(results, new) == IF results = FALSE THEN new ELSE results

\* The value of the local match after the switch on the template type: the
\* result of executeWorkflow, and the zero value for any other template,
\* whose ExecuteWithResults returns the error only.
MatchOf(type, positive) == IF type = "workflow" THEN positive ELSE FALSE

ResultScanInit ==
    /\ input \in ResultScans
    /\ called = FALSE
    /\ output = [done |-> {}, results |-> FALSE, callbacks |-> 0]

\* The target goroutine of executeModelWithInputAndResult for template t and
\* target g.
ResultScan_Task(t, g) ==
    /\ ~called
    /\ <<t, g>> \notin output.done
    /\ output' =
         [done |-> output.done \cup {<<t, g>>},
          results |-> CompareAndSwapFalse(output.results,
                          MatchOf(input.types[t], input.positive[<<t, g>>])),
          callbacks |-> IF input.types[t] # "workflow" /\ input.positive[<<t, g>>]
                        THEN output.callbacks + 1 ELSE output.callbacks]
    /\ UNCHANGED called
    /\ FnFrame

\* e.workPool.Wait() and return results.
ResultScan_Return ==
    /\ ~called
    /\ output.done = Templates \X Targets
    /\ called' = TRUE
    /\ UNCHANGED output
    /\ FnFrame

NextResultScan ==
    \/ \E t \in Templates, g \in Targets : ResultScan_Task(t, g)
    \/ ResultScan_Return

\* ------------------------------------ progress accounting of ExecuteHTTP

MaxRequests == 3

\* What happens to one compiled request: its Error field is set; the client
\* fails; the body cannot be read, dumped or decompressed; a matcher fails
\* under the AND condition; or the request runs to the end of the loop body.
RequestOutcomes == {"compile-error", "do-error", "read-error", "and-unmatched", "completed"}

\* One run: whether MakeHTTPRequest fails, and the outcome of each of the N
\* requests of the template.
ProgressRuns ==
    [makeErr : BOOLEAN,
     outcomes : UNION {[1..n -> RequestOutcomes] : n \in 1..MaxRequests}]

\* Progress.Update and Progress.Abort, counted.
ProgressStart(n) == [updates |-> 0, aborted |-> 0, remaining |-> n, err |-> FALSE]

\* The main loop of ExecuteHTTP from the i-th compiled request on.
RECURSIVE mainLoop(_, _, _)
mainLoop(outcomes, i, p) ==
    IF i > Len(outcomes) THEN p
    ELSE IF outcomes[i] \in {"compile-error", "read-error"}
    THEN [p EXCEPT !.aborted = @ + p.remaining, !.err = TRUE]
    ELSE IF outcomes[i] = "do-error"
    THEN mainLoop(outcomes, i + 1, [p EXCEPT !.aborted = @ + 1])
    ELSE mainLoop(outcomes, i + 1, [p EXCEPT !.updates = @ + 1, !.remaining = @ - 1])

ExecuteHTTP_Progress(c) ==
    IF c.makeErr THEN [ProgressStart(Len(c.outcomes)) EXCEPT !.err = TRUE]
    ELSE mainLoop(c.outcomes, 1, ProgressStart(Len(c.outcomes)))

ProgressInit ==
    /\ input \in ProgressRuns
    /\ called = FALSE
    /\ output = ProgressStart(Len(input.outcomes))

ExecuteHTTP_Run ==
    /\ ~called
    /\ called' = TRUE
    /\ output' = ExecuteHTTP_Progress(input)
    /\ FnFrame

\* --------------------------------- the header writes of executeRequest

\* One call of ExecuteWithResults: its mode, the random-agent option, whether
\* custom headers are configured, and MaxHTTPWorkers calls of executeRequest.
HeaderRuns ==
    [mode : {"sequential", "parallel", "pipeline", "race"},
     RandomAgent : BOOLEAN, customHeaders : BOOLEAN]

HeaderWorkers == 1..MaxHTTPWorkers

\* The generated request a call is handed: executeRaceRequest makes one
\* request and hands it to every goroutine; the other modes make one request
\* per call.
RequestOf(mode, w) == IF mode = "race" THEN 1 ELSE w

\* r.customHeaders has an entry to range over: a configured header, or the
\* User-Agent that a call has written.
HasCustomHeaders(c, o) == c.customHeaders \/ o.agentWritten

HeaderStart ==
    [pc |-> [w \in HeaderWorkers |-> "none"], agentWritten |-> FALSE, fatal |-> FALSE]

\* Calls that are inside the write of r.customHeaders["User-Agent"], and
\* calls that are inside the writes of setCustomHeaders to the headers of
\* request q.
AgentWriters(o) == {w \in HeaderWorkers : o.pc[w] = "agent"}
HeaderWriters(c, o, q) == {w \in HeaderWorkers : o.pc[w] = "set" /\ RequestOf(c.mode, w) = q}

HeaderInit ==
    /\ input \in HeaderRuns
    /\ called = FALSE
    /\ output = HeaderStart

\* executeRequest is entered: in the loop of the sequential mode after the
\* call before has returned, in a goroutine of its own in the other modes.
executeRequest_Enter(w) ==
    /\ ~called
    /\ output.pc[w] = "none"
    /\ \A v \in HeaderWorkers : v < w => output.pc[v] # "none"
    /\ input.mode = "sequential" => \A v \in HeaderWorkers : output.pc[v] \in {"none", "done"}
    /\ output' = [output EXCEPT !.pc[w] = "entered"]
    /\ UNCHANGED called
    /\ FnFrame

\* if RandomAgent: the write of r.customHeaders["User-Agent"] begins.
executeRequest_Agent(w) ==
    /\ ~called
    /\ output.pc[w] = "entered"
    /\ output' = [output EXCEPT !.pc[w] = IF input.RandomAgent THEN "agent" ELSE "range"]
    /\ UNCHANGED called
    /\ FnFrame

\* The write of the map has ended.
executeRequest_AgentDone(w) ==
    /\ ~called
    /\ output.pc[w] = "agent"
    /\ output' = [output EXCEPT !.pc[w] = "range", !.agentWritten = TRUE]
    /\ UNCHANGED called
    /\ FnFrame

\* setCustomHeaders: for each entry of r.customHeaders a write to the
\* headers of the generated request.
setCustomHeaders_Range(w) ==
    /\ ~called
    /\ output.pc[w] = "range"
    /\ output' = [output EXCEPT !.pc[w] = IF HasCustomHeaders(input, output) THEN "set" ELSE "send"]
    /\ UNCHANGED called
    /\ FnFrame

setCustomHeaders_Done(w) ==
    /\ ~called
    /\ output.pc[w] = "set"
    /\ output' = [output EXCEPT !.pc[w] = "send"]
    /\ UNCHANGED called
    /\ FnFrame

\* The rest of executeRequest; after the last call ExecuteWithResults
\* returns.
executeRequest_Rest(w) ==
    /\ ~called
    /\ output.pc[w] = "send"
    /\ output' = [output EXCEPT !.pc[w] = "done"]
    /\ called' = \A v \in HeaderWorkers : output'.pc[v] = "done"
    /\ FnFrame

\* Two writes of one map at the same time: the runtime may detect them and
\* end the process (fatal error: concurrent map writes), or not.
ConcurrentWrites_Fatal ==
    /\ ~called
    /\ \/ Cardinality(AgentWriters(output)) > 1
       \/ \E q \in HeaderWorkers : Cardinality(HeaderWriters(input, output, q)) > 1
    /\ output' = [output EXCEPT !.fatal = TRUE]
    /\ called' = TRUE
    /\ FnFrame

NextHeaders ==
    \/ \E w \in HeaderWorkers : executeRequest_Enter(w)
    \/ \E w \in HeaderWorkers : executeRequest_Agent(w)
    \/ \E w \in HeaderWorkers : executeRequest_AgentDone(w)
    \/ \E w \in HeaderWorkers : setCustomHeaders_Range(w)
    \/ \E w \in HeaderWorkers : setCustomHeaders_Done(w)
    \/ \E w \in HeaderWorkers : executeRequest_Rest(w)
    \/ ConcurrentWrites_Fatal

\* ------------------------------------------------------- specifications

\* The engine while another component is looked at: no scan, no refusing
\* host, an empty cache.
EngineOff == EngineIdle /\ failing = {} /\ hostErrors = StartHostErrors

\* Every component after the engine and the HTTP adapter, except c, is idle.
RestIdle(c) ==
    /\ IF c = "multi" THEN TRUE ELSE MultiIdle
    /\ IF c = "report" THEN TRUE ELSE ReportIdle
    /\ IF c = "parse" THEN TRUE ELSE ParseIdle
    /\ IF c = "workflow" THEN TRUE ELSE WorkflowIdle
    /\ IF c = "generator" THEN TRUE ELSE GeneratorIdle
    /\ IF c = "fn" THEN TRUE ELSE FnIdle
    /\ IF c = "oob" THEN TRUE ELSE OobIdle
    /\ IF c = "project" THEN TRUE ELSE ProjectIdle

Init == EngineInit /\ HttpIdle /\ RestIdle("")
Next == NextEngine
Spec == Init /\ [][Next]_vars

\* The scheduler runs every goroutine that can take a step.
SpecFair == Init /\ [][Next]_vars /\ WF_vars(Next)

InitResume == ResumeInit /\ HttpIdle /\ RestIdle("")
SpecResume == InitResume /\ [][NextResume]_vars

InitHTTP == HttpInit /\ EngineIdle /\ RestIdle("")
SpecHTTP == InitHTTP /\ [][NextHTTP]_vars

InitMulti == MultiInit /\ HttpIdle /\ RestIdle("multi")
SpecMulti == InitMulti /\ [][NextMulti]_vars

InitReport == ReportInit /\ EngineOff /\ HttpIdle /\ RestIdle("report")
SpecReport == InitReport /\ [][NextReport]_vars

InitParse == ParseInit /\ EngineOff /\ HttpIdle /\ RestIdle("parse")
SpecParse == InitParse /\ [][NextParse]_vars

InitCache == CacheInit /\ EngineOff /\ HttpIdle /\ RestIdle("parse")
SpecCache == InitCache /\ [][NextParse]_vars

InitWorkflow == WorkflowInit /\ EngineOff /\ HttpIdle /\ RestIdle("workflow")
SpecWorkflow == InitWorkflow /\ [][NextWorkflow]_vars

InitGenerator == GeneratorInit /\ EngineOff /\ HttpIdle /\ RestIdle("generator")
SpecGenerator == InitGenerator /\ [][NextGenerator]_vars

InitPayload == PayloadInit /\ EngineOff /\ HttpIdle /\ RestIdle("generator")
SpecPayload == InitPayload /\ [][NextPayload]_vars

InitExecuteHTTP == ExecuteHTTPInit /\ EngineOff /\ HttpIdle /\ RestIdle("fn")
SpecExecuteHTTP == InitExecuteHTTP /\ [][ExecuteHTTP_Response]_vars

InitMatchWords == MatchWordsInit /\ EngineOff /\ HttpIdle /\ RestIdle("fn")
SpecMatchWords == InitMatchWords /\ [][MatchWords_Call]_vars

InitMatchDSL == MatchDSLInit /\ EngineOff /\ HttpIdle /\ RestIdle("fn")
SpecMatchDSL == InitMatchDSL /\ [][MatchDSL_Call]_vars

InitOob == OobInit /\ EngineOff /\ HttpIdle /\ RestIdle("oob")
SpecOob == InitOob /\ [][NextOob]_vars

InitProject == ProjectInit /\ EngineOff /\ HttpIdle /\ RestIdle("project")
SpecProject == InitProject /\ [][executeRequest_Project]_vars

InitBaseURL == BaseURLInit /\ EngineOff /\ HttpIdle /\ RestIdle("fn")
SpecBaseURL == InitBaseURL /\ [][baseURLWithTemplatePrefs_Call]_vars

InitSigner == SignerInit /\ EngineOff /\ HttpIdle /\ RestIdle("fn")
SpecSigner == InitSigner /\ [][Code_Execute]_vars

InitDNS == DNSInit /\ EngineOff /\ HttpIdle /\ RestIdle("fn")
SpecDNS == InitDNS /\ [][DNS_ExecuteWithResults]_vars

InitRunner == RunnerInit /\ EngineOff /\ HttpIdle /\ RestIdle("fn")
SpecRunner == InitRunner /\ [][Runner_New]_vars

InitMultiCall == MultiCallInit /\ EngineOff /\ HttpIdle /\ RestIdle("fn")
SpecMultiCall == InitMultiCall /\ [][NextMultiCall]_vars

InitSequentialCall == SequentialInit /\ EngineOff /\ HttpIdle /\ RestIdle("fn")
SpecSequentialCall == InitSequentialCall /\ [][NextSequentialCall]_vars

InitResultScan == ResultScanInit /\ EngineOff /\ HttpIdle /\ RestIdle("fn")
SpecResultScan == InitResultScan /\ [][NextResultScan]_vars

InitProgress == ProgressInit /\ EngineOff /\ HttpIdle /\ RestIdle("fn")
SpecProgress == InitProgress /\ [][ExecuteHTTP_Run]_vars

InitHeaders == HeaderInit /\ EngineOff /\ HttpIdle /\ RestIdle("fn")
SpecHeaders == InitHeaders /\ [][NextHeaders]_vars

\* ------------------------------------------------------------------ claims

\* C1: within one scan the executer of a template is invoked at most once on
\* each target, under template-spray, host-spray and ExecuteWithResults and
\* under every interleaving of the worker pools.
C1_ExecutedAtMostOnce ==
    \A t \in Templates, g \in Targets : executed[t][g] <= 1

\* C1 witness: a host-spray scan in which every template ran on every target.
C1_Witness ==
    /\ strategy = "host-spray"
    /\ \A t \in Templates, g \in Targets : executed[t][g] = 1

\* C2 (as claimed): for a template whose resume entry is not completed, a
\* target whose index is in the entry's in-flight set is never dispatched as
\* a no-op, whatever skip-under and do-above are.
C2_InFlightIsRepeated ==
    \A s \in Instances, t \in Templates, g \in Targets :
        LET k == task[s][t][g] IN
        (k.st # "none" /\ ~resumeFrom[t].Completed
            /\ k.index \in resumeFrom[t].InFlight) => ~k.skip

\* C3: on resume the executer is never invoked for a template whose resume
\* entry is completed, nor for a target whose position is below skip-under
\* and not in the in-flight set; a target goroutine started for such a target
\* carries skip = true.
C3_SkippedNeverExecuted ==
    /\ \A t \in Templates, g \in Targets :
        executed[t][g] > 0 =>
            /\ ~resumeFrom[t].Completed
            /\ ~(g < resumeFrom[t].SkipUnder /\ g \notin resumeFrom[t].InFlight)
    /\ \A s \in Instances, t \in Templates, g \in Targets :
        LET k == task[s][t][g] IN
        (k.st # "none" /\ (resumeFrom[t].Completed
              \/ (k.index < resumeFrom[t].SkipUnder
                    /\ k.index \notin resumeFrom[t].InFlight))) => k.skip

\* C3 witness: a target below skip-under and outside the in-flight set, of a
\* template that is not completed, went through its goroutine as a no-op.
C3_Witness ==
    \E t \in Templates, g \in Targets :
        /\ ~resumeFrom[t].Completed
        /\ g < resumeFrom[t].SkipUnder
        /\ g \notin resumeFrom[t].InFlight
        /\ task[0][t][g].st = "done"
        /\ task[0][t][g].skip
        /\ executed[t][g] = 0

Processed(t, g) ==
    \E s \in Instances :
        /\ \E i \in 1..Len(InputOf(s)) : InputOf(s)[i] = g /\ worker[s][t].pos >= i
        /\ worker[s][t].pc # "none"
        /\ task[s][t][g].st # "run"

\* C5 (as claimed): Current[template].Completed is true only when every target
\* of the scan has been processed for that template.
C5_CompletedOnlyAfterAllTargets ==
    \A t \in Templates :
        current[t].Completed => \A g \in Targets : Processed(t, g)

\* C7: every target goroutine that was started belongs to a target whose host
\* the cache did not report as tripped when the scan callback checked it.
C7_NoTaskForTrippedHost ==
    \A s \in Instances, t \in Templates, g \in Targets :
        task[s][t][g].st # "none" => ~task[s][t][g].trip

\* C7 witness: under ExecuteWithResults a template finished its scan having
\* left out a target of a tripped host and run another target.
C7_Witness ==
    /\ strategy = "with-results"
    /\ \E t \in Templates, g1 \in Targets, g2 \in Targets :
        /\ worker[0][t].pc = "done"
        /\ task[0][t][g1].st = "none"
        /\ HostErrorsCheck(HostOf(g1))
        /\ executed[t][g1] = 0
        /\ task[0][t][g2].st = "done"

\* Target goroutines running for template t, over all spray instances.
RunningTargets(t) ==
    {sg \in Instances \X Targets : task[sg[1]][t][sg[2]].st = "run"}

\* C10: at most TemplateThreads template goroutines run at once, and at most
\* BulkSize targets are executed at once for one template.
C10_PoolBounds ==
    /\ Cardinality(DefaultPool) <= TemplateThreads
    /\ \A t \in Templates : Cardinality(RunningTargets(t)) <= BulkSize

\* C10 witness: the input pool of a template is full while its scan callback
\* waits in Add() with a further target.
C10_Witness ==
    \E t \in Templates :
        /\ Cardinality(InputPool(0, t)) = BulkSize
        /\ worker[0][t].pc = "add"

\* C6 (as stated): a sequential call that ran its loop to the end against a
\* host refusing every connection, for a template with more requests than
\* MaxHostErrors, made exactly MaxHostErrors connection attempts.
C6_ExactlyMaxHostErrorsAttempts ==
    (/\ hpc \in {"done", "panic"}
     /\ ExecutionMode(request) = "sequential"
     /\ 0 \in failing
     /\ Len(Slots(request)) > MaxHostErrors)
        => attempts = MaxHostErrors

\* C8 (as stated): every request sent was sent by a goroutine that had taken
\* a rate-limit token for it, in every execution mode.
C8_TokenBeforeEverySend == untokened = 0

\* C9 (as stated): with StopAtFirstMatch set, no request is generated or sent
\* after a request of the call produced a positive result, in every execution
\* mode.
C9_NothingAfterFirstMatch == request.StopAtFirstMatch => ~afterMatch

\* The top-level call of the engine has returned.
ScanDone ==
    IF strategy = "host-spray"
    THEN scanPos = NTargets /\ \A s \in Instances : s > 0 => inst[s].pc = "done"
    ELSE inst[0].pc = "done"

\* The executer returned an error for (t, g).
Errored(t, g) == executed[t][g] > 0 /\ ExecuteErr(g)

\* C11 (as claimed): when the scan has run to completion, every (template,
\* target) of a template without a resume entry has been executed, whatever
\* errors the executer returned.
C11_EveryTaskExecuted ==
    ScanDone =>
        \A t \in Templates, g \in Targets :
            resumeFrom[t] = ZeroResumeInfo => executed[t][g] = 1

\* C11 (amended): the scan runs to completion whatever errors the executer
\* returns, and when it has, every (template, target) has been executed
\* unless the resume decision skipped it or the host-error cache reported its
\* host as tripped when it was dispatched.
C11_ErrorsNeverAbort ==
    /\ <>ScanDone
    /\ [](ScanDone =>
            \A t \in Templates, g \in Targets :
                \/ executed[t][g] = 1
                \/ \E s \in Instances : task[s][t][g].st = "done" /\ task[s][t][g].skip
                \/ /\ \A s \in Instances : task[s][t][g].st = "none"
                   /\ HostErrorsCheck(HostOf(g)))

\* C11 witness: a scan has completed in which the executer returned an error
\* for one task and every task on the other hosts was executed.
C11_Witness ==
    /\ ScanDone
    /\ \E t \in Templates, g \in Targets : Errored(t, g)
    /\ \E t \in Templates, g \in Targets : ~ExecuteErr(g) /\ executed[t][g] = 1
    /\ \A t \in Templates, g \in Targets : ~ExecuteErr(g) => executed[t][g] = 1

\* C12 (as claimed): the execution of a multi-protocol template on a target
\* only ever finds in the template context values that were extracted on
\* that same target.
C12_ContextScopedToTarget == \A g \in Targets : mseen[g] \subseteq {g}

\* C13: over any sequence of CreateIssue calls, the events with one
\* deduplication key reach the exporters once and the trackers at most once:
\* for the first event of that key that the allow/deny lists let through.
C13_DuplicatesCollapsed ==
    \A k \in EventKeys :
        /\ exported[k] = IF k \in dedupe THEN 1 ELSE 0
        /\ tracked[k] <= exported[k]

\* C13 witness: with no allow/deny list, every call made was for the one key,
\* which was forwarded to the tracker and the exporter once.
C13_Witness ==
    /\ calls = MaxCalls
    /\ reportOptions.AllowList.nil /\ reportOptions.DenyList.nil
    /\ \E k \in EventKeys : dedupe = {k} /\ exported[k] = 1 /\ tracked[k] = 1

\* C14 (as claimed): for every path at most one template value is ever
\* inserted into the parsed-template cache, and every successful parse of
\* the path returns that one value, under every interleaving.
C14_CacheWriteOnce ==
    \A f \in Paths : Cardinality(inserts[f]) <= 1 /\ Cardinality(returned[f]) <= 1

\* C15 (as claimed): every template that a parse returned, and every template
\* in the cache, has an id matching the id regex, a non-blank name and a
\* non-empty list of authors.
C15_ParsedTemplatesValid ==
    /\ \A p \in Parsers : pproc[p].ret = "ok" => validateTemplateMandatoryFields(files[pproc[p].path])
    /\ \A f \in Paths : cache[f] # NoTemplate => validateTemplateMandatoryFields(files[f])

\* C16 (as claimed): every template that Parse returned has request blocks or
\* a workflow block, and not both.
C16_RequestsXorWorkflow ==
    \A p \in Parsers :
        (parser = "Parse" /\ pproc[p].ret = "ok") =>
            LET c == files[pproc[p].path] IN (c.Requests # {}) # (c.Workflows > 0)

\* C17 (as claimed): compiling a workflow never recurses without bound: no
\* template is being parsed inside its own parse, so the nesting of Parse
\* calls never exceeds the number of templates.
C17_NoTemplateInsideItself ==
    \A i, j \in 1..Len(wstack) : i # j => wstack[i].path # wstack[j].path

BeforeEmpty(l) == {i \in 1..Len(l) : \A j \in 1..i : l[j] # 0}

C19_EveryBindingForEverySlot ==
    (payloads # NoPayloads /\ dones > 0) =>
        LET total == Total(payloads, attack) IN
        /\ Len(yielded) = Len(Slots(genRequest)) * total
        /\ \A i \in 1..Len(yielded) :
            /\ yielded[i].slot = ((i - 1) \div total) + 1
            /\ yielded[i].payload # NoPayloads
        /\ \A i, j \in 1..Len(yielded) :
            (i # j /\ yielded[i].slot = yielded[j].slot) =>
                yielded[i].payload # yielded[j].payload

\* The bindings of the Cartesian product of the lists.
Tuples(pm) == {v \in [1..Len(pm) -> 1..MaxListLen] : \A i \in 1..Len(pm) : v[i] <= pm[i]}

\* C20: iterating from reset() yields exactly total() bindings, each once,
\* where total() is the product of the lengths (clusterbomb), the common
\* length (pitchfork) or the sum of the lengths (sniper); for clusterbomb the
\* bindings are the tuples of the Cartesian product.
C20_TotalBindings ==
    /\ Len(yielded) <= Total(payloads, attack)
    /\ generator.payloadIterator = Exhausted => Len(yielded) = Total(payloads, attack)
    /\ \A i, j \in 1..Len(yielded) : i # j => yielded[i].payload # yielded[j].payload
    /\ (attack = "clusterbomb" /\ generator.payloadIterator = Exhausted) =>
        {yielded[i].payload : i \in 1..Len(yielded)} = Tuples(payloads)

\* A clusterbomb over MaxLists lists of several values was iterated to the end.
C20_Witness ==
    /\ attack = "clusterbomb"
    /\ Len(payloads) = MaxLists
    /\ \A i \in 1..Len(payloads) : payloads[i] > 1
    /\ generator.payloadIterator = Exhausted
    /\ Len(yielded) = Product(payloads)

\* The matchers-condition of a response is satisfied.
ConditionSatisfied(rs) ==
    IF rs.condition = "and" THEN \A i \in 1..Len(rs.matched) : rs.matched[i]
    ELSE \E i \in 1..Len(rs.matched) : rs.matched[i]

\* C21 (as claimed): ExecuteHTTP writes a result for a response only if the
\* matchers-condition is satisfied and, when the request has extractors, at
\* least one extractor yielded a value.
C21_WritesOnlyPositiveResults ==
    (called /\ output > 0) =>
        /\ ConditionSatisfied(input)
        /\ Len(input.extracted) > 0 => \E i \in 1..Len(input.extracted) : input.extracted[i] > 0

\* Word i of the call is a substring of the corpus, up to letter case when
\* the matcher is case-insensitive.
WordInCorpus(c, i) ==
    IF c.CaseInsensitive THEN Contains(ToLower(c.corpus), ToLower(c.Words[i]))
    ELSE Contains(c.corpus, c.Words[i])

C23_FailingExpressionIsFalse ==
    called =>
        /\ (input.condition = "and" /\ \E i \in 1..Len(input.dslCompiled) : input.dslCompiled[i] = "error")
              => ~output
        /\ (input.condition = "or" /\ output)
              => \E i \in 1..Len(input.dslCompiled) : input.dslCompiled[i] = "true"

\* C25 (as claimed): every interaction of a handed-out URL that is polled
\* while the poller runs and before the eviction of the URL's entry makes the
\* event of the URL be emitted with the interaction, under every
\* interleaving of the polling callback and RequestEvent.
C25_PolledInteractionEmitted ==
    \A u \in URLs : oobLog[u].emitted = oobLog[u].polled

\* C27 (as claimed): with a project file, a request whose dump is found in
\* it is not sent on the network and not stored again, a request whose dump
\* is not found is sent and its response is stored, and a request with a
\* given dump is not sent again after a send that got a response.
C27_SentAtMostOnce ==
    /\ \A i \in 1..Len(pfLog) :
        IF pfLog[i].found
        THEN ~pfLog[i].sent /\ ~pfLog[i].stored
        ELSE pfLog[i].sent /\ (pfLog[i].response => pfLog[i].stored)
    /\ \A i, j \in 1..Len(pfLog) :
        (i < j /\ pfLog[i].dump = pfLog[j].dump /\ pfLog[i].sent /\ pfLog[i].response)
            => ~pfLog[j].sent

\* C28 (as claimed): when the template data has a port after {{BaseURL}}, the
\* BaseURL value keeps the scheme and the hostname of the target URL and has
\* no port, whether the target URL has a port or not.
C28_BaseURLWithoutPort ==
    (called /\ input.hasPort) =>
        /\ output.Scheme = input.parsedURL.Scheme
        /\ output.Host.hostname = input.parsedURL.Host.hostname
        /\ output.Host.port = ""

\* The template's signature names the algorithm and the key of a verifier of
\* the trust set.
InTrustSet ==
    \E i \in 1..Len(output.trust) :
        /\ output.trust[i].Algorithm = input.template.signature.algorithm
        /\ output.trust[i].key = input.template.signature.key

C29_UnresolvedRequestAborted ==
    (called /\ ~input.makeErr
        /\ \E i \in 1..Len(input.compiledRequest) : input.compiledRequest[i] = "{{var}}") =>
        (~output.sent /\ output.events = 0 /\ output.err = "nil")

\* A request with a variable left after a label, for a resolver that would
\* have answered, has ended with the warning.
C29_Witness ==
    /\ called
    /\ ~input.makeErr
    /\ input.compiledRequest = <<"{{var}}", "label">>
    /\ input.response
    /\ output.warnings = 1

\* The non-empty targets supplied: the single target, and the lines of
\* standard input and of the target list file without surrounding blanks.
Supplied ==
    (IF input.Target # <<>> THEN {input.Target} ELSE {})
    \cup (IF input.Stdin THEN {TrimSpace(input.stdin[i]) : i \in 1..Len(input.stdin)} ELSE {})
    \cup (IF input.Targets THEN {TrimSpace(input.file[i]) : i \in 1..Len(input.file)} ELSE {})

\* C30: after New, every non-empty target supplied through the single-target
\* option, standard input or the target list file is in the scan input
\* exactly once, and inputCount is the number of distinct targets stored.
C30_EveryTargetOnce ==
    called =>
        /\ \A t \in Supplied \ {<<>>} :
               Cardinality({i \in 1..Len(output.input) : output.input[i] = t}) = 1
        /\ output.inputCount = Cardinality(Stored(output))

\* The protocols of the queue that return an error, and those that deliver
\* an event.
Failing == {i \in 1..Len(input) : input[i].err}
Delivering == {i \in 1..Len(input) : input[i].events > 0}
Callbacks == {j \in 1..Len(output.log) : output.log[j].op = "callback"}

\* C31: a multi-protocol request executes the protocols of its queue in queue
\* order; at the first protocol that returns an error the remaining ones are
\* not executed and the outer callback is not invoked; when none fails, the
\* outer callback is invoked exactly once, after the last protocol, with the
\* event most recently delivered by a protocol.
C31_QueueOrderAndOneCallback ==
    /\ \A j \in 1..Len(output.log) : output.log[j].op = "execute" => output.log[j].protocol = j
    /\ (called /\ Failing # {}) =>
           /\ Len(output.log) = SetMin(Failing)
           /\ Callbacks = {}
           /\ output.ret = "err"
    /\ (called /\ Failing = {}) =>
           /\ Callbacks = {Len(input) + 1}
           /\ Len(output.log) = Len(input) + 1
           /\ output.ret = "nil"
           /\ Delivering # {} =>
                  output.log[Len(input) + 1].event =
                      [protocol |-> SetMax(Delivering), n |-> input[SetMax(Delivering)].events]

\* Two protocols that both deliver events and do not fail: the callback has
\* been invoked and the call has returned.
C31_Witness ==
    /\ called
    /\ Len(input) = 2
    /\ Failing = {}
    /\ Delivering = {1, 2}
    /\ Callbacks # {}

\* A queue whose first protocol fails has returned the error.
C31_WitnessError ==
    /\ called
    /\ Len(input) = 2
    /\ Failing = {1}
    /\ output.ret = "err"

\* The requests before request i whose event held an extracted value for the
\* name k.
Yielding(k, i) ==
    {j \in 1..(i - 1) : /\ ~input.outcomes[j].err
                        /\ ~input.outcomes[j].OperatorsResult.nil
                        /\ input.outcomes[j].OperatorsResult.DynamicValues[k] # ""}

\* C32: in sequential execution, once a request of the pair has yielded a
\* dynamic value for a name that the incoming workflow values define too,
\* every later request is built with the extracted value, and the map the
\* caller passed in is not modified.
C32_ExtractorWins ==
    /\ output.caller = input.dynamicValues
    /\ \A i \in 1..Len(output.made) : \A k \in ValueNames :
           (input.dynamicValues[k] # "" /\ Yielding(k, i) # {}) =>
               output.made[i][k] =
                   input.outcomes[SetMax(Yielding(k, i))].OperatorsResult.DynamicValues[k]

\* A second request was built after the first one extracted a value for a
\* name of the workflow values.
C32_Witness ==
    /\ Len(output.made) = 2
    /\ input.dynamicValues["token"] = "w"
    /\ Yielding("token", 2) = {1}
    /\ output.made[2]["token"] = "e1"

\* The indices of the targets of template t that the scan callback is
\* dispatching or whose goroutine has not yet ended.
Dispatched(t) ==
    {task[s][t][g].index : <<s, g>> \in {sg \in Instances \X Targets : task[sg[1]][t][sg[2]].st = "run"}}
    \cup {worker[s][t].index : s \in {i \in Instances : worker[i][t].pc = "add"}}

\* C33 (as claimed): at every moment of executeModelWithInput the in-flight
\* set of the template holds exactly the indices of the targets whose task
\* was dispatched and has not finished; it is empty when the template is
\* marked completed, also when the host-error cache skipped targets.
C33_InFlightIsDispatched ==
    strategy # "with-results" =>
        \A t \in Templates :
            /\ current[t].InFlight = Dispatched(t)
            /\ current[t].Completed => current[t].InFlight = {}

\* C34 (as claimed): the index under which a target is tracked in the resume
\* context of a template is the 0-based position of the target in the input
\* of the scan, whatever targets the host-error cache skipped and under
\* template-spray and host-spray alike.
C34_IndexIsPosition ==
    strategy # "with-results" =>
        \A s \in Instances, t \in Templates, g \in Targets :
            task[s][t][g].st # "none" => task[s][t][g].index = g

\* The pairs a scan without host errors executes when every target is
\* tracked under its position: those the resume entry does not skip.
PairsByPosition ==
    {tg \in Templates \X Targets : ~ResumeSkip(resumeFrom[tg[1]], tg[2])}

ExecutedPairs == {tg \in Templates \X Targets : executed[tg[1]][tg[2]] > 0}

\* C35 (as claimed): for the same templates, targets, resume context and
\* host-error cache, template-spray and host-spray execute the same set of
\* (template, target) pairs: with no host failing, a finished scan of either
\* strategy has executed the pairs that the resume entries do not skip.
C35_SpraysExecuteSamePairs ==
    (ScanDone /\ strategy \in {"template-spray", "host-spray"} /\ failing = {}) =>
        ExecutedPairs = PairsByPosition

\* A workflow of the scan matched on some target.
WorkflowMatched ==
    \E t \in Templates, g \in Targets :
        input.types[t] = "workflow" /\ input.positive[<<t, g>>]

\* C36 (as claimed): the boolean that Engine.ExecuteWithResults returns is
\* true when the result callback was invoked at least once during the scan,
\* and false when it was never invoked and no workflow matched.
C36_ResultsTrueIffCallback ==
    called =>
        /\ output.callbacks > 0 => output.results
        /\ (output.callbacks = 0 /\ ~WorkflowMatched) => ~output.results

\* C37 (as claimed): for every run of ExecuteHTTP over a template with N
\* requests, whatever requests fail and at whatever step, the number of
\* progress updates plus the total passed to Abort is N when ExecuteHTTP
\* returns.
C37_UpdatesPlusAbortedIsN ==
    called => output.updates + output.aborted = Len(input.outcomes)

\* C38: every registered interactsh request event is emitted at most once:
\* an emission is the step of an interaction that finds the pending entry of
\* its id and removes it; a later interaction with the id, and an interaction
\* whose id has no pending entry (never registered, or evicted), emit
\* nothing.
C38_EmittedAtMostOnce ==
    /\ [](\A u \in URLs : oobLog[u].emitted <= 1)
    /\ [][\A u \in URLs :
            oobLog'[u].emitted # oobLog[u].emitted =>
                /\ u \in requests
                /\ u \notin requests'
                /\ oobLog'[u].emitted = oobLog[u].emitted + 1]_vars

\* Two interactions of one URL were polled: the first emitted the event, the
\* second found no entry.
C38_Witness ==
    \E u \in URLs : oobLog[u].emitted = 1 /\ oobLog[u].polled = 2 /\ ~oobLog[u].evicted

\* C39 (as claimed): no two calls of executeRequest write the shared state
\* of an HTTP Request at the same time: with the random-agent option, or in
\* race mode where every goroutine is handed the same generated request, the
\* customHeaders map and the headers of a generated request have at most one
\* writer at any moment.
C39_NoConcurrentHeaderWrites ==
    /\ Cardinality(AgentWriters(output)) <= 1
    /\ \A q \in HeaderWorkers : Cardinality(HeaderWriters(input, output, q)) <= 1
====
